---- MODULE Spec2Model ----
(***************************************************************************)
(* Model of the token cache, the token resolution and the authenticated    *)
(* request of src/mcp-servers/rdp_auth.py, and of the agent graph of       *)
(* src/chat_app.py.                                                        *)
(*                                                                         *)
(* Tokens are natural numbers; 0 stands for None and for the empty string  *)
(* (both falsy in Python).  An optional datetime is the empty sequence     *)
(* (None) or a one-element sequence holding the time in seconds.           *)
(***************************************************************************)
EXTENDS Integers, Sequences, FiniteSets, TLC

\* ------------------------------------------------------------------ bounds
MaxNow == 300
MaxTokens == 2

MaxRequests == 2

\* the operating-system processes that import rdp_auth and share CACHE_FILE
Procs == {1, 2}

\* ------------------------------------------------------- program constants
Margin == 300
DefaultExpiresIn == 3600
Unauthorized == 401
DisplayCap == 200
Timeout == 30

\* the websocket connections of the chat application, and the one whose turns
\* are followed when no other connection is active
Conns == {1, 2}
OneConn == {1}

VARIABLES
  now,        \* the wall clock, datetime.now(), in seconds
  file,       \* CACHE_FILE on disk
  creds,      \* RDP_USERNAME, RDP_PASSWORD, RDP_CLIENT_ID: set (truthy) or not
  issued,     \* number of access tokens the auth endpoint has issued so far
  pc,         \* per process: position inside make_authenticated_request
  phase,      \* per process: 1 = first token resolution, 2 = the one after a 401
  tc,         \* per process: the local token_cache dict of the running function
  auth_token, \* per process: the local auth_token of make_authenticated_request
  nreq,       \* per process: requests issued to the target URL in this call
  statuses,   \* per process: status codes of the responses received, in order
  sent,       \* per process: bearer tokens carried by the requests, in order
  result,     \* per process: what the call returned or raised
  res,        \* per process: what the running get_valid_token call has done
  nres,       \* per process: get_valid_token calls made by this call
  graph,      \* chat_app.graph: "none" before initialize_app, then "compiled"
  wpc,        \* per connection: position inside websocket_endpoint
  messages,   \* per connection: state["messages"] of the running graph
  gnext,      \* per connection: the node the graph runs next
  events,     \* per connection: records sent to the client since the last receive
  reasoning_steps, \* per connection: local list of websocket_endpoint
  tool_calls,      \* per connection: local list of websocket_endpoint
  final_response,  \* per connection: local string of websocket_endpoint
  step_counter,    \* per connection: local counter of websocket_endpoint
  invocations,     \* per connection: model invocations of the running turn
  rounds,          \* per connection: runs of the tools node in the running turn
  failed,          \* per connection: the graph run of the turn raised
  tool,            \* per process: the tool of news-server.py that is running
  tool_text,       \* per process: what the tool call returned or raised
  tool_body,       \* per process: the response body the tool call parsed
  cpc,             \* per process: position inside _save_token_cache
  got,             \* per process: what its last _load_token_cache returned
  ledger,          \* the grant of the auth endpoint that was processed last
  prev_failed,     \* per connection: the model raised in the turn before
  model_input,     \* per connection: the list the model was invoked with last
  rest             \* what the last call of chat_endpoint answered

authVars == <<now, file, creds, issued, pc, phase, tc,
              auth_token, nreq, statuses, sent, result, res, nres>>

agentVars == <<graph, wpc, messages, gnext, events, reasoning_steps,
               tool_calls, final_response, step_counter, invocations, rounds,
               failed>>

toolVars == <<tool, tool_text, tool_body>>

cacheVars == <<cpc, got>>

grantVars == <<ledger>>

turnVars == <<prev_failed, model_input>>

restVars == <<rest>>

nonAuthVars == <<agentVars, toolVars, cacheVars, grantVars, turnVars, restVars>>

nonAgentVars == <<authVars, toolVars, cacheVars, grantVars, turnVars, restVars>>

\* ------------------------------------------------------------- token cache
EmptyEntry == [access_token |-> 0, refresh_token |-> 0, expires_at |-> <<>>]

Entry(a, r, e) == [access_token |-> a, refresh_token |-> r, expires_at |-> e]

\* mutant: only the date is written, as by date.isoformat
IsoFormat_DateOnly(t) == [date |-> t \div 86400, time |-> 0]

\* datetime.isoformat: the string "YYYY-MM-DDTHH:MM:SS" of a time, as the day
\* it names and the second of that day
IsoFormat(t) == [date |-> t \div 86400, time |-> t % 86400]

\* datetime.fromisoformat, which raises ValueError for a string that names no
\* time of day
ParsesAsIso(s) == s.time \in 0..86399
FromIsoFormat(s) == s.date * 86400 + s.time

\* a stored expires_at that fromisoformat rejects
BadIso == [date |-> 0, time |-> 86400]

AllKeys == {"access_token", "refresh_token", "expires_at"}

AbsentFile == [kind |-> "absent", entry |-> EmptyEntry]
CorruptFile == [kind |-> "corrupt", entry |-> EmptyEntry]

\* the JSON document _save_token_cache writes for a cache dict
Serialized(cache) ==
  [kind |-> "entry",
   entry |-> [cache EXCEPT !.expires_at =
                IF cache.expires_at # <<>>
                  THEN <<IsoFormat(cache.expires_at[1])>>
                  ELSE cache.expires_at]]

\* a file whose content is JSON but not an object (a list, a number)
ListFile == [kind |-> "list", entry |-> EmptyEntry]

\* a file whose content is a JSON object that holds only the keys ks
ObjectFile(ks, e) ==
  [kind |-> "object", keys |-> ks,
   entry |-> Entry(IF "access_token" \in ks THEN e.access_token ELSE 0,
                   IF "refresh_token" \in ks THEN e.refresh_token ELSE 0,
                   IF "expires_at" \in ks THEN e.expires_at ELSE <<>>)]

\* _load_token_cache fails inside its try: the file is missing or is not a
\* JSON object, or its expires_at does not parse
LoadFails(f) ==
  \/ f.kind \notin {"entry", "object"}
  \/ f.entry.expires_at # <<>> /\ ~ParsesAsIso(f.entry.expires_at[1])

\* _load_token_cache: the dict read from the file, or the empty entry
LoadTokenCache(f) ==
  IF ~LoadFails(f)
    THEN [f.entry EXCEPT !.expires_at =
            IF f.entry.expires_at # <<>>
              THEN <<FromIsoFormat(f.entry.expires_at[1])>>
              ELSE f.entry.expires_at]
    ELSE EmptyEntry

\* the keys of the dict _load_token_cache returns: those of the JSON object,
\* or the three of the empty entry
LoadedKeys(f) == IF ~LoadFails(f) /\ f.kind = "object" THEN f.keys ELSE AllKeys

\* _save_token_cache is best effort: the file after the call is the new
\* document, or the old file (open failed), or a truncated file (the dump
\* failed after open(..., 'w') emptied the file)
SaveOutcomes(f, cache) == {Serialized(cache), f, CorruptFile}

\* clear_token_cache is best effort: unlink succeeds or fails
ClearOutcomes(f) == IF f.kind = "absent" THEN {f} ELSE {AbsentFile, f}

\* mutant: the test accepts a token at the very instant it expires
TokenValid_AtExpiry(cache, t) ==
  /\ cache.access_token # 0
  /\ cache.expires_at # <<>>
  /\ t <= cache.expires_at[1]

\* mutant: the test subtracts the safety margin a second time
TokenValid_DoubleMargin(cache, t) ==
  /\ cache.access_token # 0
  /\ cache.expires_at # <<>>
  /\ t + Margin < cache.expires_at[1]

\* the validity test of get_valid_token and get_auth_token
TokenValid(cache, t) ==
  /\ cache.access_token # 0
  /\ cache.expires_at # <<>>
  /\ t < cache.expires_at[1]

\* mutant: the client id is not looked at
CheckCredentials_NoClientId(c) == c.username /\ c.password

\* mutant: one credential is enough
CheckCredentials_Any(c) == c.username \/ c.password \/ c.client_id

\* check_credentials
CheckCredentials(c) == c.username /\ c.password /\ c.client_id

\* ------------------------------------------------------- the auth endpoint
ExpiresInAbsent == [k |-> "absent", v |-> 0]
ExpiresInBad == [k |-> "bad", v |-> 0]
ExpiresInInt(n) == [k |-> "int", v |-> n]

ExpiresIns == {ExpiresInAbsent, ExpiresInBad, ExpiresInInt(300), ExpiresInInt(600)}

\* further values of expires_in in the JSON of an answer: null, a string of
\* digits ("600"), a number with a fraction (600.5, kept as its whole part),
\* and a number too large for a float (1e999, which json reads as infinity)
ExpiresInNull == [k |-> "null", v |-> 0]
ExpiresInStr(n) == [k |-> "str", v |-> n]
ExpiresInFloat(n) == [k |-> "float", v |-> n]
ExpiresInInf == [k |-> "inf", v |-> 0]

\* int(expires_in) raises OverflowError, which the handler around it
\* (ValueError, TypeError) lets by
Overflows(ei) == ei.k = "inf"

\* mutant: only a JSON integer is taken, a string or a fraction is replaced
\* by the default
NormExpiresIn_NoCoercion(ei) == IF ei.k = "int" THEN ei.v ELSE DefaultExpiresIn

\* data.get("expires_in", 3600) followed by int(...) with its fallback
NormExpiresIn(ei) ==
  IF ei.k \in {"int", "str", "float"} THEN ei.v ELSE DefaultExpiresIn

NoResp == [kind |-> "none", access_token |-> 0, has_refresh |-> FALSE,
           refresh_token |-> 0, expires_in |-> ExpiresInAbsent, issued_at |-> 0]

\* answers of POST /auth/oauth2/v1/token at time t when n tokens were issued:
\* a transport error, a non-200 status, a 200 whose body is not JSON, a 200
\* without access_token, or a 200 with a new access token
AuthFailures ==
  {[NoResp EXCEPT !.kind = k] : k \in {"transport", "http", "badjson"}}
    \cup {[NoResp EXCEPT !.kind = "ok"]}

AuthGrants(n, t) ==
  IF n >= MaxTokens THEN {}
  ELSE {[kind |-> "ok", access_token |-> n + 1, has_refresh |-> hr,
         refresh_token |-> IF hr THEN n + 1 ELSE 0, expires_in |-> ei,
         issued_at |-> t] : hr \in BOOLEAN, ei \in ExpiresIns}

AuthAnswers(n, t) == AuthFailures \cup AuthGrants(n, t)

\* mutant: the margin is subtracted only from lifetimes longer than it
ExpiresAt_KeepsShort(t, ei) ==
  <<IF NormExpiresIn(ei) > Margin THEN t + (NormExpiresIn(ei) - Margin)
                                  ELSE t + NormExpiresIn(ei)>>

\* mutant: the declared lifetime is taken whole
ExpiresAt_NoMargin(t, ei) == <<t + NormExpiresIn(ei)>>

\* expires_at as both grant handlers compute it
ExpiresAt(t, ei) == <<t + (NormExpiresIn(ei) - Margin)>>

\* ---------------------------------------------------------------- results
NoResult == [kind |-> "none", status |-> 0, req |-> 0, err |-> ""]
Response(s, k) == [kind |-> "response", status |-> s, req |-> k, err |-> ""]
Raised(e, k) == [kind |-> "raise", status |-> 0, req |-> k, err |-> e]

\* the record of one get_valid_token call: how it returned ("cache" at
\* get_valid_token's own test, "auth_cache" at the test of get_auth_token,
\* "refresh" and "password" after a grant, "unavailable" without credentials,
\* "failed" after a failed password grant), the grants it posted and their
\* order, the saves it called, what its loads showed, the token it was granted
NoRes == [how |-> "running", refresh |-> 0, password |-> 0, order |-> <<>>,
          saves |-> 0, seen_refresh |-> FALSE, reload |-> "none",
          refresh_failed |-> FALSE, granted |-> 0]

Methods == {"GET", "POST", "PUT"}
TargetStatuses == {200, 401, 500}

\* ------------------------------------------------------------------- Init
\* the file a process finds at start: none, junk, or what an earlier run saved
\* for token 1 (already expired, or expiring at 300)
InitFiles ==
  {AbsentFile, CorruptFile} \cup
  {Serialized(Entry(1, r, e)) : r \in {0, 1}, e \in {<<0>>, <<300>>}}

\* the environment: all three credentials set, or exactly one of them missing
CredSets ==
  {c \in [username : BOOLEAN, password : BOOLEAN, client_id : BOOLEAN] :
     Cardinality({f \in {"username", "password", "client_id"} : ~c[f]}) <= 1}

AuthInit ==
  /\ now = 0
  /\ file \in InitFiles
  /\ creds \in CredSets
  /\ issued = 1
  /\ pc = [p \in Procs |-> "idle"]
  /\ phase = [p \in Procs |-> 1]
  /\ tc = [p \in Procs |-> EmptyEntry]
  /\ auth_token = [p \in Procs |-> 0]
  /\ nreq = [p \in Procs |-> 0]
  /\ statuses = [p \in Procs |-> <<>>]
  /\ sent = [p \in Procs |-> <<>>]
  /\ result = [p \in Procs |-> NoResult]
  /\ res = [p \in Procs |-> NoRes]
  /\ nres = [p \in Procs |-> 0]

AgentIdle ==
  /\ wpc = [c \in Conns |-> "closed"]
  /\ messages = [c \in Conns |-> <<>>]
  /\ gnext = [c \in Conns |-> "none"]
  /\ events = [c \in Conns |-> <<>>]
  /\ reasoning_steps = [c \in Conns |-> <<>>]
  /\ tool_calls = [c \in Conns |-> <<>>]
  /\ final_response = [c \in Conns |-> ""]
  /\ step_counter = [c \in Conns |-> 0]
  /\ invocations = [c \in Conns |-> 0]
  /\ rounds = [c \in Conns |-> 0]
  /\ failed = [c \in Conns |-> FALSE]

\* no tool call is running
NoToolText == [kind |-> "none", words |-> <<>>, cause |-> "", value |-> <<>>]

ToolIdle ==
  /\ tool = [p \in Procs |-> ""]
  /\ tool_text = [p \in Procs |-> NoToolText]
  /\ tool_body = [p \in Procs |-> <<>>]

\* no process has loaded the cache or is saving it
NoGot == [head |-> "none", entry |-> EmptyEntry, keys |-> AllKeys]

CacheIdle ==
  /\ cpc = [p \in Procs |-> "idle"]
  /\ got = [p \in Procs |-> NoGot]

\* no grant has been processed
GrantIdle == ledger = {}

\* no connection has had a turn
TurnIdle ==
  /\ prev_failed = [c \in Conns |-> FALSE]
  /\ model_input = [c \in Conns |-> <<>>]

\* chat_endpoint has not been called
NoRest == [status |-> 0, response |-> <<>>, tool_calls |-> <<>>, ran |-> FALSE]
RestIdle == rest = NoRest

\* ---------------------------------------------------------- get_valid_token
\* mutant: a cache miss always goes to full authentication
AfterCacheMiss_NoRefresh(c) == "gat"

\* get_valid_token after a cache miss: the refresh path when the loaded entry
\* holds a refresh token, else full authentication
AfterCacheMiss(c) == IF c.refresh_token # 0 THEN "raf" ELSE "gat"

\* mutant: a 200 is taken as success without looking for the access token
RefreshSucceeded_AnyOk(a) == a.kind = "ok"

\* refresh_auth_token: the answer is a 200 that carries an access token
RefreshSucceeded(a) ==
  a.kind = "ok" /\ a.access_token # 0 /\ ~Overflows(a.expires_in)

\* get_auth_token: the access_token of a 200 answer, else None
GrantedToken(a) ==
  IF a.kind = "ok" /\ ~Overflows(a.expires_in) THEN a.access_token ELSE 0

\* the caller invokes make_authenticated_request: get_valid_token is called
Call(p) ==
  /\ pc[p] \in {"idle", "done"}
  /\ pc' = [pc EXCEPT ![p] = "gvt"]
  /\ phase' = [phase EXCEPT ![p] = 1]
  /\ tc' = [tc EXCEPT ![p] = EmptyEntry]
  /\ auth_token' = [auth_token EXCEPT ![p] = 0]
  /\ nreq' = [nreq EXCEPT ![p] = 0]
  /\ statuses' = [statuses EXCEPT ![p] = <<>>]
  /\ sent' = [sent EXCEPT ![p] = <<>>]
  /\ result' = [result EXCEPT ![p] = NoResult]
  /\ res' = [res EXCEPT ![p] = NoRes]
  /\ nres' = [nres EXCEPT ![p] = 1]
  /\ UNCHANGED <<now, file, creds, issued>>

\* mutant: the token is not tested, the request follows in every case
Resolved_Unchecked(p, tok, how, r) ==
  /\ res' = [res EXCEPT ![p] = [r EXCEPT !.how = how]]
  /\ auth_token' = [auth_token EXCEPT ![p] = tok]
  /\ tc' = [tc EXCEPT ![p] = EmptyEntry]
  /\ pc' = [pc EXCEPT ![p] = IF phase[p] = 1 THEN "req1" ELSE "req2"]
  /\ UNCHANGED result

\* get_valid_token returns tok to make_authenticated_request, which raises
\* when the token is falsy and otherwise goes on to the request
Resolved(p, tok, how, r) ==
  /\ res' = [res EXCEPT ![p] = [r EXCEPT !.how = how]]
  /\ auth_token' = [auth_token EXCEPT ![p] = tok]
  /\ tc' = [tc EXCEPT ![p] = EmptyEntry]
  /\ IF tok = 0
       THEN /\ pc' = [pc EXCEPT ![p] = "done"]
            /\ result' = [result EXCEPT ![p] =
                 Raised(IF phase[p] = 1 THEN "Unable to authenticate"
                                        ELSE "Unable to re-authenticate", nreq[p])]
       ELSE /\ pc' = [pc EXCEPT ![p] = IF phase[p] = 1 THEN "req1" ELSE "req2"]
            /\ UNCHANGED result

\* get_valid_token up to its first return or call
GetValidToken(p) ==
  /\ pc[p] = "gvt"
  /\ LET c == LoadTokenCache(file) IN
       IF TokenValid(c, now)
         THEN Resolved(p, c.access_token, "cache", res[p])
         ELSE /\ pc' = [pc EXCEPT ![p] = AfterCacheMiss(c)]
              /\ res' = [res EXCEPT ![p].seen_refresh = (c.refresh_token # 0)]
              /\ UNCHANGED <<auth_token, result, tc>>
  /\ UNCHANGED <<now, file, creds, issued, phase, nreq, statuses, sent, nres>>

\* refresh_auth_token up to the POST of the refresh grant
RefreshSend(p) ==
  /\ pc[p] = "raf"
  /\ LET c == LoadTokenCache(file) IN
       IF c.refresh_token = 0
         THEN /\ pc' = [pc EXCEPT ![p] = "gat"]
              /\ res' = [res EXCEPT ![p].reload = "lacks"]
              /\ UNCHANGED tc
         ELSE /\ tc' = [tc EXCEPT ![p] = c]
              /\ res' = [res EXCEPT ![p].reload = "has",
                                    ![p].refresh = @ + 1,
                                    ![p].order = Append(@, "refresh")]
              /\ pc' = [pc EXCEPT ![p] = "raf_wait"]
  /\ UNCHANGED <<now, file, creds, issued, phase, auth_token, nreq, statuses,
                 sent, result, nres>>

\* mutant: a failed refresh is tried again
RefreshAnswered_Retries(p, a) ==
  /\ pc[p] = "raf_wait"
  /\ issued' = IF a.access_token # 0 THEN a.access_token ELSE issued
  /\ IF RefreshSucceeded(a)
       THEN LET new == Entry(a.access_token,
                             IF a.has_refresh THEN a.refresh_token
                                              ELSE tc[p].refresh_token,
                             ExpiresAt(now, a.expires_in))
            IN /\ file' \in SaveOutcomes(file, new)
               /\ Resolved(p, a.access_token, "refresh",
                           [res[p] EXCEPT !.saves = @ + 1,
                                          !.granted = a.access_token,
                                          !.refresh_failed = (a \in AuthFailures)])
       ELSE /\ pc' = [pc EXCEPT ![p] = "raf"]
            /\ tc' = [tc EXCEPT ![p] = EmptyEntry]
            /\ res' = [res EXCEPT ![p].refresh_failed = (a \in AuthFailures)]
            /\ UNCHANGED <<file, auth_token, result>>
  /\ UNCHANGED <<now, creds, phase, nreq, statuses, sent, nres>>

\* refresh_auth_token from the answer a of the POST on
RefreshAnswered(p, a) ==
  /\ pc[p] = "raf_wait"
  /\ issued' = IF a.access_token # 0 THEN a.access_token ELSE issued
  /\ IF RefreshSucceeded(a)
       THEN LET new == Entry(a.access_token,
                             IF a.has_refresh THEN a.refresh_token
                                              ELSE tc[p].refresh_token,
                             ExpiresAt(now, a.expires_in))
            IN /\ file' \in SaveOutcomes(file, new)
               /\ Resolved(p, a.access_token, "refresh",
                           [res[p] EXCEPT !.saves = @ + 1,
                                          !.granted = a.access_token,
                                          !.refresh_failed = (a \in AuthFailures)])
       ELSE /\ pc' = [pc EXCEPT ![p] = "gat"]
            /\ tc' = [tc EXCEPT ![p] = EmptyEntry]
            /\ res' = [res EXCEPT ![p].refresh_failed = (a \in AuthFailures)]
            /\ UNCHANGED <<file, auth_token, result>>
  /\ UNCHANGED <<now, creds, phase, nreq, statuses, sent, nres>>

\* refresh_auth_token receives one of the answers of the endpoint
RefreshRecv(p) == \E a \in AuthAnswers(issued, now) : RefreshAnswered(p, a)

\* get_auth_token up to the POST of the password grant
AuthSend(p) ==
  /\ pc[p] = "gat"
  /\ LET c == LoadTokenCache(file) IN
       IF TokenValid(c, now)
         THEN Resolved(p, c.access_token, "auth_cache", res[p])
         ELSE IF ~CheckCredentials(creds)
           THEN Resolved(p, 0, "unavailable", res[p])
           ELSE /\ res' = [res EXCEPT ![p].password = @ + 1,
                                      ![p].order = Append(@, "password")]
                /\ pc' = [pc EXCEPT ![p] = "gat_wait"]
                /\ UNCHANGED <<auth_token, result, tc>>
  /\ UNCHANGED <<now, file, creds, issued, phase, nreq, statuses, sent, nres>>

\* get_auth_token from the answer a of the POST on
AuthAnswered(p, a) ==
  /\ pc[p] = "gat_wait"
  /\ issued' = IF a.access_token # 0 THEN a.access_token ELSE issued
  /\ IF GrantedToken(a) # 0
       THEN LET new == Entry(a.access_token,
                             IF a.has_refresh THEN a.refresh_token ELSE 0,
                             ExpiresAt(now, a.expires_in))
            IN /\ file' \in SaveOutcomes(file, new)
               /\ Resolved(p, GrantedToken(a), "password",
                           [res[p] EXCEPT !.saves = @ + 1,
                                          !.granted = a.access_token])
       ELSE /\ Resolved(p, GrantedToken(a), "failed", res[p])
            /\ UNCHANGED file
  /\ UNCHANGED <<now, creds, phase, nreq, statuses, sent, nres>>

\* get_auth_token receives one of the answers of the endpoint
AuthRecv(p) == \E a \in AuthAnswers(issued, now) : AuthAnswered(p, a)

\* ------------------------------------------------ make_authenticated_request
\* where make_authenticated_request goes after the first response
AfterFirstResponse(s) == IF s = Unauthorized THEN "clear" ELSE "done"

\* mutant: the retry is a loop, a 401 clears and retries again
AfterRetryResponse_Loop(s) == IF s = Unauthorized THEN "clear" ELSE "done"

\* where make_authenticated_request goes after the response of the retry
AfterRetryResponse(s) == "done"

\* mutant: a transport error is handled like a 401
Request_RetriesTransport(p, m) ==
  /\ pc[p] = "req1"
  /\ IF m \notin {"GET", "POST"}
       THEN /\ pc' = [pc EXCEPT ![p] = "done"]
            /\ result' = [result EXCEPT ![p] = Raised("ValueError", nreq[p])]
            /\ UNCHANGED <<nreq, statuses, sent>>
       ELSE /\ nreq' = [nreq EXCEPT ![p] = @ + 1]
            /\ sent' = [sent EXCEPT ![p] = Append(@, auth_token[p])]
            /\ \/ /\ pc' = [pc EXCEPT ![p] = "clear"]
                  /\ UNCHANGED <<result, statuses>>
               \/ \E s \in TargetStatuses :
                    /\ statuses' = [statuses EXCEPT ![p] = Append(@, s)]
                    /\ pc' = [pc EXCEPT ![p] = AfterFirstResponse(s)]
                    /\ result' = [result EXCEPT ![p] =
                         IF AfterFirstResponse(s) = "done"
                           THEN Response(s, nreq[p] + 1) ELSE @]
  /\ UNCHANGED <<now, file, creds, issued, phase, tc, auth_token, res, nres>>

\* the first request to the target URL, with method m, and its response
Request(p, m) ==
  /\ pc[p] = "req1"
  /\ IF m \notin {"GET", "POST"}
       THEN /\ pc' = [pc EXCEPT ![p] = "done"]
            /\ result' = [result EXCEPT ![p] = Raised("ValueError", nreq[p])]
            /\ UNCHANGED <<nreq, statuses, sent>>
       ELSE /\ nreq' = [nreq EXCEPT ![p] = @ + 1]
            /\ sent' = [sent EXCEPT ![p] = Append(@, auth_token[p])]
            /\ \/ \* the client raises a transport error
                  /\ pc' = [pc EXCEPT ![p] = "done"]
                  /\ result' = [result EXCEPT ![p] = Raised("transport", nreq[p] + 1)]
                  /\ UNCHANGED statuses
               \/ \E s \in TargetStatuses :
                    /\ statuses' = [statuses EXCEPT ![p] = Append(@, s)]
                    /\ pc' = [pc EXCEPT ![p] = AfterFirstResponse(s)]
                    /\ result' = [result EXCEPT ![p] =
                         IF AfterFirstResponse(s) = "done"
                           THEN Response(s, nreq[p] + 1) ELSE @]
  /\ UNCHANGED <<now, file, creds, issued, phase, tc, auth_token, res, nres>>

\* on a 401: clear_token_cache(), then get_valid_token is called again
ClearAndRetry(p) ==
  /\ pc[p] = "clear"
  /\ file' \in ClearOutcomes(file)
  /\ pc' = [pc EXCEPT ![p] = "gvt"]
  /\ phase' = [phase EXCEPT ![p] = 2]
  /\ res' = [res EXCEPT ![p] = NoRes]
  /\ nres' = [nres EXCEPT ![p] = @ + 1]
  /\ UNCHANGED <<now, creds, issued, tc, auth_token, nreq, statuses, sent,
                 result>>

\* the retried request and its response
Retry(p) ==
  /\ pc[p] = "req2"
  /\ nreq' = [nreq EXCEPT ![p] = @ + 1]
  /\ sent' = [sent EXCEPT ![p] = Append(@, auth_token[p])]
  /\ \/ /\ pc' = [pc EXCEPT ![p] = "done"]
        /\ result' = [result EXCEPT ![p] = Raised("transport", nreq[p] + 1)]
        /\ UNCHANGED statuses
     \/ \E s \in TargetStatuses :
          /\ statuses' = [statuses EXCEPT ![p] = Append(@, s)]
          /\ pc' = [pc EXCEPT ![p] = AfterRetryResponse(s)]
          /\ result' = [result EXCEPT ![p] =
               IF AfterRetryResponse(s) = "done"
                 THEN Response(s, nreq[p] + 1) ELSE @]
  /\ UNCHANGED <<now, file, creds, issued, phase, tc, auth_token, res, nres>>

\* time passes
Tick ==
  /\ now + Margin <= MaxNow
  /\ now' = now + Margin
  /\ UNCHANGED <<file, creds, issued, pc, phase, tc, auth_token, nreq,
                 statuses, sent, result, res, nres>>

AuthNext ==
  \/ \E p \in Procs : Call(p) /\ UNCHANGED nonAuthVars
  \/ \E p \in Procs : GetValidToken(p) /\ UNCHANGED nonAuthVars
  \/ \E p \in Procs : RefreshSend(p) /\ UNCHANGED nonAuthVars
  \/ \E p \in Procs : RefreshRecv(p) /\ UNCHANGED nonAuthVars
  \/ \E p \in Procs : AuthSend(p) /\ UNCHANGED nonAuthVars
  \/ \E p \in Procs : AuthRecv(p) /\ UNCHANGED nonAuthVars
  \/ \E p \in Procs, m \in Methods : Request(p, m) /\ UNCHANGED nonAuthVars
  \/ \E p \in Procs : ClearAndRetry(p) /\ UNCHANGED nonAuthVars
  \/ \E p \in Procs : Retry(p) /\ UNCHANGED nonAuthVars
  \/ Tick /\ UNCHANGED nonAuthVars

\* ------------------------------------------------------- the agent graph
\* messages of the graph state; an assistant message carries content and the
\* ordered tool-call requests, a tool message the id of the request it answers
\* and the text of the result
Text(body, len) == [body |-> body, len |-> len, cut |-> FALSE]
NoText == Text("", 0)

HumanMessage(t) ==
  [role |-> "human", content |-> t, tool_calls |-> <<>>, tool_call_id |-> 0]
AIMessage(t, calls) ==
  [role |-> "ai", content |-> t, tool_calls |-> calls, tool_call_id |-> 0]
ToolMessage(t, id) ==
  [role |-> "tool", content |-> t, tool_calls |-> <<>>, tool_call_id |-> id]

ToolNames == {"get_headlines", "get_news_story"}
ToolCall(id, name) == [id |-> id, name |-> name, args |-> "args"]

\* what the client may send as the message field, and what the model and the
\* tools may answer
UserMessages == {NoText, Text("question", 8)}
Contents == {NoText, Text("answer", DisplayCap + 1)}
ToolResults == {Text("result", DisplayCap), Text("result", DisplayCap + 1)}

\* the tool-call requests a model answer may carry after n requests of the
\* turn: k requests with the ids n+1 .. n+k, at most MaxRequests in a turn
ToolCallLists(n) ==
  UNION {{[i \in 1..k |-> ToolCall(n + i, names[i])] : names \in [1..k -> ToolNames]}
           : k \in 0..(MaxRequests - n)}

\* the number of tool-call requests in a history
RECURSIVE Requested(_)
Requested(ms) ==
  IF ms = <<>> THEN 0
  ELSE Len(ms[Len(ms)].tool_calls) + Requested(SubSeq(ms, 1, Len(ms) - 1))

\* mutant: the assistant node is wired straight to END
ToolsCondition_AlwaysEnd(m) == "end"

\* mutant: the assistant node is wired straight to the tools node
ToolsCondition_AlwaysTools(m) == "tools"

\* tools_condition, the conditional edge out of the assistant node
ToolsCondition(m) == IF m.tool_calls # <<>> THEN "tools" ELSE "end"

\* mutant: the tools node is wired to END
AfterTools_End == "end"

\* the edge out of the tools node
AfterTools == "assistant"

\* mutant: every tool message carries the id of the first request
ToolNodeOutput_FirstId(m, results) ==
  [i \in 1..Len(m.tool_calls) |-> ToolMessage(results[i], m.tool_calls[1].id)]

\* ToolNode(all_tools): one tool message per request of the last assistant
\* message, in request order, results[i] being the text of the i-th tool
ToolNodeOutput(m, results) ==
  [i \in 1..Len(m.tool_calls) |-> ToolMessage(results[i], m.tool_calls[i].id)]

\* ---------------------------------------------------- websocket_endpoint
Step(n, type, name, response) ==
  [step |-> n, type |-> type, tool_name |-> name, response |-> response]

Event(type, step, response, steps, calls) ==
  [type |-> type, step |-> step, response |-> response,
   reasoning_steps |-> steps, tool_calls |-> calls]

NoStep == Step(0, "", "", NoText)
Apology == Text("I apologize, but I wasn't able to generate a response.", 54)

ThinkingEvent == Event("thinking", NoStep, NoText, <<>>, <<>>)
StepEvent(st) == Event("reasoning_step", st, NoText, <<>>, <<>>)
ErrorEvent == Event("error", NoStep, NoText, <<>>, <<>>)
UntypedErrorEvent == Event("", NoStep, NoText, <<>>, <<>>)
FinalEvent(r, steps, calls) == Event("final_complete", NoStep, r, steps, calls)

\* mutant: a text of exactly the cap is cut as well
Displayed_AtCap(t) ==
  IF t.len >= DisplayCap
    THEN [body |-> t.body, len |-> DisplayCap + 3, cut |-> TRUE]
    ELSE t

\* the response field of a tool_response step
Displayed(t) ==
  IF t.len > DisplayCap
    THEN [body |-> t.body, len |-> DisplayCap + 3, cut |-> TRUE]
    ELSE t

\* mutant: the tool_call steps are recorded before the reasoning step
AssistantSteps_CallsFirst(m, n) ==
  IF m.tool_calls # <<>>
    THEN [i \in 1..Len(m.tool_calls) |->
            Step(n + i, "tool_call", m.tool_calls[i].name, NoText)] \o
         <<Step(n, "reasoning", "", NoText)>>
    ELSE IF m.content # NoText
      THEN <<Step(n, "final_response", "", NoText)>>
      ELSE <<>>

\* the steps websocket_endpoint records for an assistant chunk whose message
\* is m, the chunk being counted as step n
AssistantSteps(m, n) ==
  IF m.tool_calls # <<>>
    THEN <<Step(n, "reasoning", "", NoText)>> \o
         [i \in 1..Len(m.tool_calls) |->
            Step(n + i, "tool_call", m.tool_calls[i].name, NoText)]
    ELSE IF m.content # NoText
      THEN <<Step(n, "final_response", "", NoText)>>
      ELSE <<>>

\* the steps it records for a tools chunk, the chunk being counted as step n
ToolsSteps(ms, n) ==
  [i \in 1..Len(ms) |-> Step(n + i, "tool_response", "", Displayed(ms[i].content))]

\* mutant: the steps of a chunk are sent last first
StepEvents_Reversed(steps) ==
  [i \in 1..Len(steps) |-> StepEvent(steps[Len(steps) + 1 - i])]

\* the reasoning_step events sent for the steps of a chunk
StepEvents(steps) == [i \in 1..Len(steps) |-> StepEvent(steps[i])]

\* initialize_app compiles the graph
InitializeApp ==
  /\ graph = "none"
  /\ graph' = "compiled"
  /\ UNCHANGED <<wpc, messages, gnext, events, reasoning_steps, tool_calls,
                 final_response, step_counter, invocations, rounds, failed>>

\* a client connects: accept, and without a graph one error and close
Connect(c) ==
  /\ wpc[c] = "closed"
  /\ IF graph = "none"
       THEN /\ events' = [events EXCEPT ![c] = <<ErrorEvent>>]
            /\ UNCHANGED wpc
       ELSE /\ events' = [events EXCEPT ![c] = <<>>]
            /\ wpc' = [wpc EXCEPT ![c] = "receive"]
  /\ UNCHANGED <<graph, messages, gnext, reasoning_steps, tool_calls,
                 final_response, step_counter, invocations, rounds, failed>>

\* mutant: the message field is not tested, an empty message starts a turn
Receive_StartsAnyway(c, t) ==
  /\ wpc[c] = "receive"
  /\ messages' = [messages EXCEPT ![c] = <<HumanMessage(t)>>]
  /\ events' = [events EXCEPT ![c] = <<ThinkingEvent>>]
  /\ reasoning_steps' = [reasoning_steps EXCEPT ![c] = <<>>]
  /\ tool_calls' = [tool_calls EXCEPT ![c] = <<>>]
  /\ final_response' = [final_response EXCEPT ![c] = NoText]
  /\ step_counter' = [step_counter EXCEPT ![c] = 0]
  /\ invocations' = [invocations EXCEPT ![c] = 0]
  /\ rounds' = [rounds EXCEPT ![c] = 0]
  /\ failed' = [failed EXCEPT ![c] = FALSE]
  /\ gnext' = [gnext EXCEPT ![c] = "assistant"]
  /\ wpc' = [wpc EXCEPT ![c] = "stream"]
  /\ UNCHANGED graph

\* mutant: the graph keeps the history of the connection, as with a
\* checkpointer, and the new message is appended to it
Receive_KeepsHistory(c, t) ==
  /\ wpc[c] = "receive"
  /\ IF t = NoText
       THEN /\ events' = [events EXCEPT ![c] = <<UntypedErrorEvent>>]
            /\ UNCHANGED <<wpc, messages, gnext, reasoning_steps, tool_calls,
                           final_response, step_counter, invocations, rounds,
                           failed>>
       ELSE /\ messages' = [messages EXCEPT ![c] = Append(@, HumanMessage(t))]
            /\ events' = [events EXCEPT ![c] = <<ThinkingEvent>>]
            /\ reasoning_steps' = [reasoning_steps EXCEPT ![c] = <<>>]
            /\ tool_calls' = [tool_calls EXCEPT ![c] = <<>>]
            /\ final_response' = [final_response EXCEPT ![c] = NoText]
            /\ step_counter' = [step_counter EXCEPT ![c] = 0]
            /\ invocations' = [invocations EXCEPT ![c] = 0]
            /\ rounds' = [rounds EXCEPT ![c] = 0]
            /\ failed' = [failed EXCEPT ![c] = FALSE]
            /\ gnext' = [gnext EXCEPT ![c] = "assistant"]
            /\ wpc' = [wpc EXCEPT ![c] = "stream"]
  /\ UNCHANGED graph

\* a message arrives: an empty one is answered by an error record, any other
\* starts a turn
Receive(c, t) ==
  /\ wpc[c] = "receive"
  /\ IF t = NoText
       THEN /\ events' = [events EXCEPT ![c] = <<UntypedErrorEvent>>]
            /\ UNCHANGED <<wpc, messages, gnext, reasoning_steps, tool_calls,
                           final_response, step_counter, invocations, rounds,
                           failed>>
       ELSE /\ messages' = [messages EXCEPT ![c] = <<HumanMessage(t)>>]
            /\ events' = [events EXCEPT ![c] = <<ThinkingEvent>>]
            /\ reasoning_steps' = [reasoning_steps EXCEPT ![c] = <<>>]
            /\ tool_calls' = [tool_calls EXCEPT ![c] = <<>>]
            /\ final_response' = [final_response EXCEPT ![c] = NoText]
            /\ step_counter' = [step_counter EXCEPT ![c] = 0]
            /\ invocations' = [invocations EXCEPT ![c] = 0]
            /\ rounds' = [rounds EXCEPT ![c] = 0]
            /\ failed' = [failed EXCEPT ![c] = FALSE]
            /\ gnext' = [gnext EXCEPT ![c] = "assistant"]
            /\ wpc' = [wpc EXCEPT ![c] = "stream"]
  /\ UNCHANGED graph

\* mutant: the answer of the model takes the place of the last message of
\* the history
Assistant_Overwrites(c, m) ==
  /\ wpc[c] = "stream" /\ gnext[c] = "assistant"
  /\ Requested(messages[c]) + Len(m.tool_calls) <= MaxRequests
  /\ LET steps == AssistantSteps(m, step_counter[c] + 1) IN
       /\ messages' = [messages EXCEPT ![c] =
            Append(SubSeq(@, 1, Len(@) - 1), m)]
       /\ gnext' = [gnext EXCEPT ![c] = ToolsCondition(m)]
       /\ invocations' = [invocations EXCEPT ![c] = @ + 1]
       /\ step_counter' = [step_counter EXCEPT ![c] = @ + 1 + Len(m.tool_calls)]
       /\ reasoning_steps' = [reasoning_steps EXCEPT ![c] = @ \o steps]
       /\ tool_calls' = [tool_calls EXCEPT ![c] = @ \o m.tool_calls]
       /\ final_response' = [final_response EXCEPT ![c] =
            IF m.tool_calls = <<>> /\ m.content # NoText /\ @ = NoText
              THEN m.content ELSE @]
       /\ events' = [events EXCEPT ![c] = @ \o StepEvents(steps)]
  /\ UNCHANGED <<graph, wpc, rounds, failed>>

\* the assistant node runs: the model answers with message m, and the chunk
\* is relayed to the client
Assistant(c, m) ==
  /\ wpc[c] = "stream" /\ gnext[c] = "assistant"
  /\ Requested(messages[c]) + Len(m.tool_calls) <= MaxRequests
  /\ LET steps == AssistantSteps(m, step_counter[c] + 1) IN
       /\ messages' = [messages EXCEPT ![c] = Append(@, m)]
       /\ gnext' = [gnext EXCEPT ![c] = ToolsCondition(m)]
       /\ invocations' = [invocations EXCEPT ![c] = @ + 1]
       /\ step_counter' = [step_counter EXCEPT ![c] = @ + 1 + Len(m.tool_calls)]
       /\ reasoning_steps' = [reasoning_steps EXCEPT ![c] = @ \o steps]
       /\ tool_calls' = [tool_calls EXCEPT ![c] = @ \o m.tool_calls]
       /\ final_response' = [final_response EXCEPT ![c] =
            IF m.tool_calls = <<>> /\ m.content # NoText /\ @ = NoText
              THEN m.content ELSE @]
       /\ events' = [events EXCEPT ![c] = @ \o StepEvents(steps)]
  /\ UNCHANGED <<graph, wpc, rounds, failed>>

\* mutant: the final send is outside the try, it follows the error event
AssistantFails_ThenFinal(c) ==
  /\ wpc[c] = "stream" /\ gnext[c] = "assistant"
  /\ invocations' = [invocations EXCEPT ![c] = @ + 1]
  /\ failed' = [failed EXCEPT ![c] = TRUE]
  /\ events' = [events EXCEPT ![c] =
       @ \o <<ErrorEvent, FinalEvent(Apology, reasoning_steps[c], tool_calls[c])>>]
  /\ gnext' = [gnext EXCEPT ![c] = "none"]
  /\ wpc' = [wpc EXCEPT ![c] = "receive"]
  /\ UNCHANGED <<graph, messages, reasoning_steps, tool_calls, final_response,
                 step_counter, rounds>>

\* the model invocation raises: one error event, the turn is over
AssistantFails(c) ==
  /\ wpc[c] = "stream" /\ gnext[c] = "assistant"
  /\ invocations' = [invocations EXCEPT ![c] = @ + 1]
  /\ failed' = [failed EXCEPT ![c] = TRUE]
  /\ events' = [events EXCEPT ![c] = Append(@, ErrorEvent)]
  /\ gnext' = [gnext EXCEPT ![c] = "none"]
  /\ wpc' = [wpc EXCEPT ![c] = "receive"]
  /\ UNCHANGED <<graph, messages, reasoning_steps, tool_calls, final_response,
                 step_counter, rounds>>

\* mutant: reasoning_steps is a module-level list that all connections use
Tools_SharedSteps(c, results) ==
  /\ wpc[c] = "stream" /\ gnext[c] = "tools"
  /\ LET out == ToolNodeOutput(messages[c][Len(messages[c])], results)
         steps == ToolsSteps(out, step_counter[c] + 1)
     IN /\ messages' = [messages EXCEPT ![c] = @ \o out]
        /\ gnext' = [gnext EXCEPT ![c] = AfterTools]
        /\ rounds' = [rounds EXCEPT ![c] = @ + 1]
        /\ step_counter' = [step_counter EXCEPT ![c] = @ + 1 + Len(out)]
        /\ reasoning_steps' = [d \in Conns |-> reasoning_steps[d] \o steps]
        /\ events' = [events EXCEPT ![c] = @ \o StepEvents(steps)]
  /\ UNCHANGED <<graph, wpc, tool_calls, final_response, invocations, failed>>

\* the tools node runs the requests of the last assistant message, the i-th
\* tool returning results[i], and the chunk is relayed to the client
Tools(c, results) ==
  /\ wpc[c] = "stream" /\ gnext[c] = "tools"
  /\ LET out == ToolNodeOutput(messages[c][Len(messages[c])], results)
         steps == ToolsSteps(out, step_counter[c] + 1)
     IN /\ messages' = [messages EXCEPT ![c] = @ \o out]
        /\ gnext' = [gnext EXCEPT ![c] = AfterTools]
        /\ rounds' = [rounds EXCEPT ![c] = @ + 1]
        /\ step_counter' = [step_counter EXCEPT ![c] = @ + 1 + Len(out)]
        /\ reasoning_steps' = [reasoning_steps EXCEPT ![c] = @ \o steps]
        /\ events' = [events EXCEPT ![c] = @ \o StepEvents(steps)]
  /\ UNCHANGED <<graph, wpc, tool_calls, final_response, invocations, failed>>

\* the tools node raises: one error event, the turn is over
ToolsFails(c) ==
  /\ wpc[c] = "stream" /\ gnext[c] = "tools"
  /\ failed' = [failed EXCEPT ![c] = TRUE]
  /\ events' = [events EXCEPT ![c] = Append(@, ErrorEvent)]
  /\ gnext' = [gnext EXCEPT ![c] = "none"]
  /\ wpc' = [wpc EXCEPT ![c] = "receive"]
  /\ UNCHANGED <<graph, messages, reasoning_steps, tool_calls, final_response,
                 step_counter, invocations, rounds>>

\* mutant: the answer is capped like the text of a tool_response step
FinalText_Capped(fr) ==
  IF fr # NoText
    THEN IF fr.len > DisplayCap
           THEN [body |-> fr.body, len |-> DisplayCap + 3, cut |-> TRUE]
           ELSE fr
    ELSE Apology

\* mutant: the response of final_complete is always the fallback
FinalText_Apology(fr) == Apology

\* the response field of final_complete
FinalText(fr) == IF fr # NoText THEN fr ELSE Apology

\* the graph has reached END: final_complete is sent
Complete(c) ==
  /\ wpc[c] = "stream" /\ gnext[c] = "end"
  /\ events' = [events EXCEPT ![c] = Append(@,
       FinalEvent(FinalText(final_response[c]), reasoning_steps[c], tool_calls[c]))]
  /\ gnext' = [gnext EXCEPT ![c] = "none"]
  /\ wpc' = [wpc EXCEPT ![c] = "receive"]
  /\ UNCHANGED <<graph, messages, reasoning_steps, tool_calls, final_response,
                 step_counter, invocations, rounds, failed>>

\* the number of requests of the last message of the history
PendingRequests(c) ==
  IF messages[c] = <<>> THEN 0
  ELSE Len(messages[c][Len(messages[c])].tool_calls)

AgentNext ==
  \/ InitializeApp /\ UNCHANGED nonAgentVars
  \/ \E c \in OneConn : Connect(c) /\ UNCHANGED nonAgentVars
  \/ \E c \in OneConn, t \in UserMessages : Receive(c, t) /\ UNCHANGED nonAgentVars
  \/ \E c \in OneConn :
       \E t \in Contents, calls \in ToolCallLists(Requested(messages[c])) :
         Assistant(c, AIMessage(t, calls)) /\ UNCHANGED nonAgentVars
  \/ \E c \in OneConn : AssistantFails(c) /\ UNCHANGED nonAgentVars
  \/ \E c \in OneConn :
       \E results \in [1..PendingRequests(c) -> ToolResults] :
         Tools(c, results) /\ UNCHANGED nonAgentVars
  \/ \E c \in OneConn : ToolsFails(c) /\ UNCHANGED nonAgentVars
  \/ \E c \in OneConn : Complete(c) /\ UNCHANGED nonAgentVars

\* sys_msg, the system preamble of the assistant node
sys_msg ==
  [role |-> "system", content |-> Text("preamble", 8), tool_calls |-> <<>>,
   tool_call_id |-> 0]

\* mutant: the model is invoked with the history alone
ModelInput_NoPreamble(ms) == ms

\* the list the assistant node invokes the model with: the preamble, then the
\* history of the state
ModelInput(ms) == <<sys_msg>> \o ms

\* the assistant messages of the history of c
AssistantMessages(c) ==
  {i \in 1..Len(messages[c]) : messages[c][i].role = "ai"}

\* the turn of c ended because the model invocation raised: the model was
\* invoked once more than it answered
ModelFailed(c) ==
  failed[c] /\ invocations[c] = Cardinality(AssistantMessages(c)) + 1

\* one connection, turn after turn, with the memory of how the turn before
\* the running one ended
TurnNext ==
  \/ InitializeApp /\ UNCHANGED nonAgentVars
  \/ \E c \in OneConn : Connect(c) /\ UNCHANGED nonAgentVars
  \/ \E c \in OneConn, t \in UserMessages :
       /\ Receive(c, t)
       /\ prev_failed' = [prev_failed EXCEPT ![c] =
            IF t = NoText THEN @ ELSE ModelFailed(c)]
       /\ model_input' = [model_input EXCEPT ![c] =
            IF t = NoText THEN @ ELSE <<>>]
       /\ UNCHANGED <<authVars, toolVars, cacheVars, grantVars, restVars>>
  \/ \E c \in OneConn :
       \E t \in Contents, calls \in ToolCallLists(Requested(messages[c])) :
         /\ Assistant(c, AIMessage(t, calls))
         /\ model_input' = [model_input EXCEPT ![c] = ModelInput(messages[c])]
         /\ UNCHANGED <<authVars, toolVars, cacheVars, grantVars, restVars,
                        prev_failed>>
  \/ \E c \in OneConn :
       /\ AssistantFails(c)
       /\ model_input' = [model_input EXCEPT ![c] = ModelInput(messages[c])]
       /\ UNCHANGED <<authVars, toolVars, cacheVars, grantVars, restVars,
                      prev_failed>>
  \/ \E c \in OneConn :
       \E results \in [1..PendingRequests(c) -> ToolResults] :
         Tools(c, results) /\ UNCHANGED nonAgentVars
  \/ \E c \in OneConn : ToolsFails(c) /\ UNCHANGED nonAgentVars
  \/ \E c \in OneConn : Complete(c) /\ UNCHANGED nonAgentVars

\* the tool-call requests of the running turns of the connections of C
RECURSIVE SumRequested(_)
SumRequested(C) ==
  IF C = {} THEN 0
  ELSE LET c == CHOOSE x \in C : TRUE
       IN Requested(messages[c]) + SumRequested(C \ {c})

\* every connection runs its own websocket_endpoint coroutine on the one event
\* loop: their steps interleave at every await; the turns that run together
\* request at most MaxRequests tool calls, each of them fewer
PairNext ==
  \/ InitializeApp /\ UNCHANGED nonAgentVars
  \/ \E c \in Conns : Connect(c) /\ UNCHANGED nonAgentVars
  \/ \E c \in Conns, t \in UserMessages : Receive(c, t) /\ UNCHANGED nonAgentVars
  \/ \E c \in Conns :
       \E t \in Contents, calls \in ToolCallLists(Requested(messages[c])) :
         /\ SumRequested(Conns) + Len(calls) <= MaxRequests
         /\ Requested(messages[c]) + Len(calls) < MaxRequests
         /\ Assistant(c, AIMessage(t, calls)) /\ UNCHANGED nonAgentVars
  \/ \E c \in Conns : AssistantFails(c) /\ UNCHANGED nonAgentVars
  \/ \E c \in Conns :
       \E results \in [1..PendingRequests(c) -> ToolResults] :
         Tools(c, results) /\ UNCHANGED nonAgentVars
  \/ \E c \in Conns : ToolsFails(c) /\ UNCHANGED nonAgentVars
  \/ \E c \in Conns : Complete(c) /\ UNCHANGED nonAgentVars

\* the tool-call requests of a history, in request order
RECURSIVE RequestedCalls(_)
RequestedCalls(ms) ==
  IF ms = <<>> THEN <<>>
  ELSE RequestedCalls(SubSeq(ms, 1, Len(ms) - 1)) \o ms[Len(ms)].tool_calls

\* ----------------------------------------------------------- chat_endpoint
\* the histories graph.ainvoke may return for the message t: the answer of
\* the model at once, or after one round of tools
RestRuns(t) ==
  {<<HumanMessage(t), AIMessage(a, <<>>)>> : a \in Contents}
  \cup UNION {{<<HumanMessage(t), AIMessage(a, calls)>>
                 \o ToolNodeOutput(AIMessage(a, calls), results)
                 \o <<AIMessage(b, <<>>)>> :
                   a \in Contents, b \in Contents,
                   results \in [1..Len(calls) -> ToolResults]} :
                calls \in ToolCallLists(0) \ {<<>>}}

\* what chat_endpoint answers: the status, the response and tool_calls
\* fields, and whether graph.ainvoke was called
RestAnswer(s, r, calls, ran) ==
  [status |-> s, response |-> r, tool_calls |-> calls, ran |-> ran]

\* mutant: chat_endpoint has no check of the graph, and graph.ainvoke on None
\* raises inside the try
ChatEndpoint_NoGuard(t) ==
  /\ IF graph = "none"
       THEN rest' = RestAnswer(500, <<>>, <<>>, FALSE)
       ELSE \/ \E h \in RestRuns(t) :
                 rest' = RestAnswer(200, <<h[Len(h)].content>>,
                                    RequestedCalls(h), TRUE)
            \/ rest' = RestAnswer(500, <<>>, <<>>, TRUE)
  /\ UNCHANGED <<authVars, agentVars, toolVars, cacheVars, grantVars, turnVars>>

\* POST /chat with the message t: 503 without a graph; else the graph runs
\* on the one message, and the answer holds the content of the last message
\* and the requests of all messages, or is 500 when the run raised
ChatEndpoint(t) ==
  /\ IF graph = "none"
       THEN rest' = RestAnswer(503, <<>>, <<>>, FALSE)
       ELSE \/ \E h \in RestRuns(t) :
                 rest' = RestAnswer(200, <<h[Len(h)].content>>,
                                    RequestedCalls(h), TRUE)
            \/ rest' = RestAnswer(500, <<>>, <<>>, TRUE)
  /\ UNCHANGED <<authVars, agentVars, toolVars, cacheVars, grantVars, turnVars>>

\* the entry points of the application: the startup, the opening of a
\* connection and the REST endpoint
AppNext ==
  \/ InitializeApp /\ UNCHANGED nonAgentVars
  \/ \E c \in Conns : Connect(c) /\ UNCHANGED nonAgentVars
  \/ \E t \in UserMessages : ChatEndpoint(t)

\* ------------------------------------------------- the tools of news-server
\* the process that serves the tools
ToolProcs == {1}

\* the failures a tool call can meet: those make_authenticated_request raises,
\* raise_for_status, response.json() and the extraction of the fields
Exceptions ==
  {"Unable to authenticate", "Unable to re-authenticate", "transport",
   "ValueError", "HTTPStatusError", "JSONDecodeError", "TypeError",
   "AttributeError", "KeyError"}

\* mutant: the handler is written for the errors of the HTTP client only
ToolCatches_HttpOnly(e) == e \in {"transport", "HTTPStatusError"}

\* except Exception: every failure above is an Exception
ToolCatches(e) == e \in Exceptions

\* mutant: the error text is the text of the exception alone
ErrorPrefix_None(name) == <<>>

\* the words the error text of a tool starts with
ErrorPrefix(name) ==
  IF name = "get_headlines"
    THEN <<"Error", "fetching", "news", ":">>
    ELSE <<"Error", "fetching", "news", "by", "ID", ":">>

\* what a tool call returns: the text of an error, or the JSON text of a value
ErrorText(name, e) ==
  [kind |-> "text", words |-> ErrorPrefix(name) \o <<e>>, cause |-> e,
   value |-> <<>>]
JsonText(v) == [kind |-> "text", words |-> <<"json">>, cause |-> "", value |-> <<v>>]
RaisedText(e) == [kind |-> "raised", words |-> <<>>, cause |-> e, value |-> <<>>]

\* the outcome of a try block: a value, or the exception raised
Value(v) == [ok |-> TRUE, value |-> <<v>>, cause |-> ""]
Throws(e) == [ok |-> FALSE, value |-> <<>>, cause |-> e]

\* the stories of a headlines response: not a dict, a dict without storyId,
\* without newsItem, with an empty title list, with a title without "$", or
\* complete
StoryKinds == {"string", "noid", "bare", "emptytitles", "no$", "ok"}

\* the bodies of a 2xx answer to the headlines request: not JSON, a number, a
\* list, an object whose data is null, an object without data, an object with
\* a list of stories
HeadlineBodies ==
  {[shape |-> sh, stories |-> <<>>] :
     sh \in {"notjson", "number", "list", "nulldata", "nodata"}}
  \cup {[shape |-> "data", stories |-> st] :
     st \in {<<>>} \cup {<<k>> : k \in StoryKinds}
            \cup {<<k, "ok">> : k \in StoryKinds}}

\* the simplified stories get_headlines extracts from a response body
Headlines(body) ==
  CASE body.shape = "notjson" -> Throws("JSONDecodeError")
    [] body.shape \in {"number", "nulldata"} -> Throws("TypeError")
    [] body.shape \in {"list", "nodata"} -> Value(<<>>)
    [] OTHER ->
         IF \E i \in 1..Len(body.stories) : body.stories[i] = "string"
           THEN Throws("AttributeError")
           ELSE Value([i \in 1..Len(body.stories) |->
                  [story_id |-> IF body.stories[i] = "noid" THEN 0 ELSE i,
                   headline |-> IF body.stories[i] = "ok" THEN i ELSE 0]])

\* the bodies of a 2xx answer to the story request: not JSON, a number, an
\* object without newsItem, or an object whose newsItem holds or lacks the
\* headline, and holds versionCreated and urgency with or without "$" or not
\* at all, and text or image content
Members == {"absent", "no$", "ok"}
NoItem == [headline |-> "absent", versionCreated |-> "absent",
           urgency |-> "absent", content |-> "absent"]
StoryBodies ==
  {[shape |-> sh, item |-> NoItem] : sh \in {"notjson", "number", "noitem"}}
  \cup {[shape |-> "item",
         item |-> [headline |-> h, versionCreated |-> v, urgency |-> u,
                   content |-> c]] :
          h \in {"absent", "ok"}, v \in Members, u \in Members,
          c \in {"absent", "text", "image"}}

\* the simplified story get_news_story extracts from a response body (0 is
\* the empty string)
EmptyStory == [headline |-> 0, publication_date |-> 0, urgency |-> 0,
               content_type |-> "", content |-> ""]
Story(body) ==
  CASE body.shape = "notjson" -> Throws("JSONDecodeError")
    [] body.shape = "number" -> Throws("TypeError")
    [] body.shape = "noitem" -> Value(EmptyStory)
    [] OTHER ->
         IF body.item.versionCreated = "no$" \/ body.item.urgency = "no$"
           THEN Throws("KeyError")
           ELSE Value(
             [headline |-> IF body.item.headline = "ok" THEN 1 ELSE 0,
              publication_date |-> IF body.item.versionCreated = "ok" THEN 1 ELSE 0,
              urgency |-> IF body.item.urgency = "ok" THEN 1 ELSE 0,
              content_type |-> IF body.item.content = "absent" THEN ""
                               ELSE body.item.content,
              content |-> CASE body.item.content = "image" ->
                                 "Image content (binary data not included)"
                            [] body.item.content = "text" -> "text"
                            [] OTHER -> ""])

ToolBodies(name) == IF name = "get_headlines" THEN HeadlineBodies ELSE StoryBodies

\* response.raise_for_status()
IsSuccess(status) == status \in 200..299

\* the try block of a tool: the request, raise_for_status, response.json()
\* and the extraction; r is what make_authenticated_request returned or raised
TryBlock(name, r, body) ==
  IF r.kind = "raise" THEN Throws(r.err)
  ELSE IF ~IsSuccess(r.status) THEN Throws("HTTPStatusError")
  ELSE IF name = "get_headlines" THEN Headlines(body) ELSE Story(body)

\* what the tool call returns, or raises when its handler lets the failure by
ToolResult(name, r, body) ==
  LET out == TryBlock(name, r, body)
  IN IF out.ok THEN JsonText(out.value[1])
     ELSE IF ToolCatches(out.cause) THEN ErrorText(name, out.cause)
     ELSE RaisedText(out.cause)

\* the body response.json() was called on: none when the request raised or
\* raise_for_status did
ParsedBody(r, body) ==
  IF r.kind = "response" /\ IsSuccess(r.status) THEN <<body>> ELSE <<>>

\* a tool is called: it calls make_authenticated_request
CallTool(p, name) ==
  /\ tool[p] = "" \/ tool_text[p].kind # "none"
  /\ Call(p)
  /\ tool' = [tool EXCEPT ![p] = name]
  /\ tool_text' = [tool_text EXCEPT ![p] = NoToolText]
  /\ tool_body' = [tool_body EXCEPT ![p] = <<>>]
  /\ UNCHANGED <<agentVars, cacheVars, grantVars, turnVars, restVars>>

\* make_authenticated_request is over: the tool returns
ToolReturn(p, body) ==
  /\ tool[p] # "" /\ tool_text[p].kind = "none"
  /\ pc[p] = "done"
  /\ tool_text' = [tool_text EXCEPT ![p] = ToolResult(tool[p], result[p], body)]
  /\ tool_body' = [tool_body EXCEPT ![p] = ParsedBody(result[p], body)]
  /\ UNCHANGED <<authVars, agentVars, cacheVars, grantVars, turnVars, restVars, tool>>

ToolNext ==
  \/ \E p \in ToolProcs, name \in ToolNames : CallTool(p, name)
  \/ \E p \in ToolProcs : GetValidToken(p) /\ UNCHANGED nonAuthVars
  \/ \E p \in ToolProcs : RefreshSend(p) /\ UNCHANGED nonAuthVars
  \/ \E p \in ToolProcs : RefreshRecv(p) /\ UNCHANGED nonAuthVars
  \/ \E p \in ToolProcs : AuthSend(p) /\ UNCHANGED nonAuthVars
  \/ \E p \in ToolProcs : AuthRecv(p) /\ UNCHANGED nonAuthVars
  \/ \E p \in ToolProcs : Request(p, "GET") /\ UNCHANGED nonAuthVars
  \/ \E p \in ToolProcs : ClearAndRetry(p) /\ UNCHANGED nonAuthVars
  \/ \E p \in ToolProcs : Retry(p) /\ UNCHANGED nonAuthVars
  \/ \E p \in ToolProcs : \E body \in ToolBodies(tool[p]) : ToolReturn(p, body)
  \/ Tick /\ UNCHANGED nonAuthVars

\* ------------------------------------------------ the grants, with their times
\* the values of expires_in an answer may carry
GrantExpiresIns ==
  ExpiresIns \cup {ExpiresInNull, ExpiresInStr(600), ExpiresInFloat(600),
                   ExpiresInInf, ExpiresInInt(Timeout)}

\* the time an answer takes from the endpoint to the handler: none, or as
\* long as the timeout of the POST lets it take
Latencies == {0, Timeout}

\* the answers of the endpoint at time t when n tokens were issued, the token
\* of a grant being issued at t or a latency before t
GrantAnswers(n, t) ==
  AuthFailures \cup
  IF n >= MaxTokens THEN {}
  ELSE {[kind |-> "ok", access_token |-> n + 1, has_refresh |-> hr,
         refresh_token |-> IF hr THEN n + 1 ELSE 0, expires_in |-> ei,
         issued_at |-> t - d] :
          hr \in BOOLEAN, ei \in GrantExpiresIns, d \in {l \in Latencies : l <= t}}

\* the ledger after the answer a was processed: the token of a grant, the
\* time it was issued and the expires_in it declares
Processed(a) ==
  IF a.access_token # 0
    THEN {[token |-> a.access_token, issued_at |-> a.issued_at,
           expires_in |-> a.expires_in]}
    ELSE ledger

\* one process calls make_authenticated_request again and again while the
\* clock advances
GrantNext ==
  \/ \E p \in ToolProcs : Call(p) /\ UNCHANGED nonAuthVars
  \/ \E p \in ToolProcs : GetValidToken(p) /\ UNCHANGED nonAuthVars
  \/ \E p \in ToolProcs : RefreshSend(p) /\ UNCHANGED nonAuthVars
  \/ \E p \in ToolProcs : \E a \in GrantAnswers(issued, now) :
       /\ RefreshAnswered(p, a)
       /\ ledger' = Processed(a)
       /\ UNCHANGED <<agentVars, toolVars, cacheVars, turnVars, restVars>>
  \/ \E p \in ToolProcs : AuthSend(p) /\ UNCHANGED nonAuthVars
  \/ \E p \in ToolProcs : \E a \in GrantAnswers(issued, now) :
       /\ AuthAnswered(p, a)
       /\ ledger' = Processed(a)
       /\ UNCHANGED <<agentVars, toolVars, cacheVars, turnVars, restVars>>
  \/ \E p \in ToolProcs : Request(p, "GET") /\ UNCHANGED nonAuthVars
  \/ \E p \in ToolProcs : ClearAndRetry(p) /\ UNCHANGED nonAuthVars
  \/ \E p \in ToolProcs : Retry(p) /\ UNCHANGED nonAuthVars
  \/ Tick /\ UNCHANGED nonAuthVars

\* ------------------------------------------- the cache file, step by step
\* the variables of the token layer that a load, a save or a clear leaves alone
callVars == <<now, creds, issued, pc, phase, auth_token, nreq, statuses, sent,
              result, res, nres>>

\* the start of get_valid_token on the dict d it loaded, whose keys are ks:
\* the subscripts d["access_token"], d["expires_at"] and d["refresh_token"]
\* are evaluated in this order as far as the and-chain and the if go, and a
\* missing key raises KeyError
GetValidTokenHead(d, ks, t) ==
  IF "access_token" \notin ks THEN "KeyError"
  ELSE IF d.access_token # 0 /\ "expires_at" \notin ks THEN "KeyError"
  ELSE IF TokenValid(d, t) THEN "hit"
  ELSE IF "refresh_token" \notin ks THEN "KeyError"
  ELSE AfterCacheMiss(d)

\* the entries a save is called with: every field set or null, an expiry in
\* the first day and one in the second
SaveEntries ==
  {Entry(a, r, e) : a \in 0..MaxTokens, r \in {0, 1},
                    e \in {<<>>, <<0>>, <<86700>>}}

\* the entries process p saves when every grant carries its own token
RaceEntries(p) == {Entry(p, r, <<86400 * p>>) : r \in {0, p}}

\* what the store can hold when a process starts: nothing, no JSON, JSON that
\* is no object, a saved entry, an entry whose expires_at does not parse, or
\* an object that lacks some of the three keys
StoreContents ==
  {AbsentFile, CorruptFile, ListFile}
  \cup {Serialized(e) : e \in SaveEntries}
  \cup {[kind |-> "entry", entry |-> Entry(1, 1, <<BadIso>>)]}
  \cup {ObjectFile(ks, Serialized(Entry(1, 1, e)).entry) :
          ks \in (SUBSET AllKeys) \ {AllKeys}, e \in {<<0>>, <<86700>>}}

\* _load_token_cache, and the start of get_valid_token on what it returned
CacheLoad(p) ==
  /\ cpc[p] # "dump"
  /\ got' = [got EXCEPT ![p] =
       [head |-> GetValidTokenHead(LoadTokenCache(file), LoadedKeys(file), now),
        entry |-> LoadTokenCache(file), keys |-> LoadedKeys(file)]]
  /\ cpc' = [cpc EXCEPT ![p] = IF @ = "saved" THEN "reloaded" ELSE "loaded"]
  /\ tc' = [tc EXCEPT ![p] = EmptyEntry]
  /\ UNCHANGED <<file, callVars, agentVars, toolVars, grantVars, turnVars, restVars>>

\* _save_token_cache up to open(CACHE_FILE, 'w'): the open fails and the save
\* is over, or it leaves an empty file
SaveOpen(p, e) ==
  /\ cpc[p] # "dump"
  /\ \/ /\ cpc' = [cpc EXCEPT ![p] = "idle"]
        /\ tc' = [tc EXCEPT ![p] = EmptyEntry]
        /\ UNCHANGED file
     \/ /\ cpc' = [cpc EXCEPT ![p] = "dump"]
        /\ tc' = [tc EXCEPT ![p] = e]
        /\ file' = CorruptFile
  /\ UNCHANGED <<got, callVars, agentVars, toolVars, grantVars, turnVars, restVars>>

\* mutant: the save rewrites access_token and expires_at in the stored record
\* and keeps the refresh_token it finds there
SaveDump_FieldWise(p) ==
  /\ cpc[p] = "dump"
  /\ file' = IF file.kind = "entry"
               THEN Serialized([tc[p] EXCEPT !.refresh_token =
                                  LoadTokenCache(file).refresh_token])
               ELSE Serialized(tc[p])
  /\ cpc' = [cpc EXCEPT ![p] = "idle"]
  /\ tc' = [tc EXCEPT ![p] = EmptyEntry]
  /\ UNCHANGED <<got, callVars, agentVars, toolVars, grantVars, turnVars, restVars>>

\* _save_token_cache from json.dump on: the document is written, or the dump
\* fails, or the path no longer names the file that was opened
SaveDump(p) ==
  /\ cpc[p] = "dump"
  /\ file' \in SaveOutcomes(file, tc[p])
  /\ IF file' = Serialized(tc[p])
       THEN cpc' = [cpc EXCEPT ![p] = "saved"] /\ UNCHANGED tc
       ELSE cpc' = [cpc EXCEPT ![p] = "idle"] /\ tc' = [tc EXCEPT ![p] = EmptyEntry]
  /\ UNCHANGED <<got, callVars, agentVars, toolVars, grantVars, turnVars, restVars>>

\* clear_token_cache
CacheClear(p) ==
  /\ cpc[p] # "dump"
  /\ file' \in ClearOutcomes(file)
  /\ cpc' = [cpc EXCEPT ![p] = "idle"]
  /\ tc' = [tc EXCEPT ![p] = EmptyEntry]
  /\ UNCHANGED <<got, callVars, agentVars, toolVars, grantVars, turnVars, restVars>>

\* the processes load, save and clear without any lock
CacheNext ==
  \/ \E p \in Procs : CacheLoad(p)
  \/ \E p \in Procs : \E e \in RaceEntries(p) : SaveOpen(p, e)
  \/ \E p \in Procs : SaveDump(p)
  \/ \E p \in Procs : CacheClear(p)

\* one process loads, saves and clears
StoreNext ==
  \/ \E p \in ToolProcs : CacheLoad(p)
  \/ \E p \in ToolProcs, e \in SaveEntries : SaveOpen(p, e)
  \/ \E p \in ToolProcs : SaveDump(p)
  \/ \E p \in ToolProcs : CacheClear(p)

vars == <<authVars, agentVars, toolVars, cacheVars, grantVars, turnVars, restVars>>

\* the token layer: the processes that call make_authenticated_request
Init == AuthInit /\ graph = "none" /\ AgentIdle /\ ToolIdle /\ CacheIdle /\ GrantIdle /\ TurnIdle /\ RestIdle
Next == AuthNext
Spec == Init /\ [][Next]_vars

\* the news server: one process serving tool calls
ToolSpec == Init /\ [][ToolNext]_vars

\* the token layer of one process with the times of issue of the tokens
GrantSpec == Init /\ [][GrantNext]_vars

\* no call of make_authenticated_request is running
AuthAtRest ==
  /\ now = 0 /\ issued = 1
  /\ creds = [username |-> TRUE, password |-> TRUE, client_id |-> TRUE]
  /\ pc = [p \in Procs |-> "idle"]
  /\ phase = [p \in Procs |-> 1]
  /\ tc = [p \in Procs |-> EmptyEntry]
  /\ auth_token = [p \in Procs |-> 0]
  /\ nreq = [p \in Procs |-> 0]
  /\ statuses = [p \in Procs |-> <<>>]
  /\ sent = [p \in Procs |-> <<>>]
  /\ result = [p \in Procs |-> NoResult]
  /\ res = [p \in Procs |-> NoRes]
  /\ nres = [p \in Procs |-> 0]

\* the cache file under the loads, saves and clears of the processes, from a
\* file the module has written
CacheInit ==
  /\ AuthAtRest /\ file \in InitFiles
  /\ graph = "none" /\ AgentIdle /\ ToolIdle /\ CacheIdle /\ GrantIdle /\ TurnIdle /\ RestIdle
CacheSpec == CacheInit /\ [][CacheNext]_vars

\* the cache file of one process, from any content of the store
StoreInit ==
  /\ AuthAtRest /\ file \in StoreContents
  /\ graph = "none" /\ AgentIdle /\ ToolIdle /\ CacheIdle /\ GrantIdle /\ TurnIdle /\ RestIdle
StoreSpec == StoreInit /\ [][StoreNext]_vars

\* the chat application: the connections that run turns of the agent graph
AgentInit ==
  /\ graph = "none" /\ AgentIdle /\ ToolIdle /\ CacheIdle /\ GrantIdle /\ TurnIdle /\ RestIdle
  /\ now = 0 /\ file = AbsentFile /\ issued = 1
  /\ creds = [username |-> TRUE, password |-> TRUE, client_id |-> TRUE]
  /\ pc = [p \in Procs |-> "idle"]
  /\ phase = [p \in Procs |-> 1]
  /\ tc = [p \in Procs |-> EmptyEntry]
  /\ auth_token = [p \in Procs |-> 0]
  /\ nreq = [p \in Procs |-> 0]
  /\ statuses = [p \in Procs |-> <<>>]
  /\ sent = [p \in Procs |-> <<>>]
  /\ result = [p \in Procs |-> NoResult]
  /\ res = [p \in Procs |-> NoRes]
  /\ nres = [p \in Procs |-> 0]
AgentSpec == AgentInit /\ [][AgentNext]_vars

\* the chat application with one connection, turn after turn
TurnSpec == AgentInit /\ [][TurnNext]_vars

\* the chat application before and after its startup: clients connect and
\* call the REST endpoint
AppSpec == AgentInit /\ [][AppNext]_vars

\* the chat application with all its connections running turns concurrently
PairSpec == AgentInit /\ [][PairNext]_vars

\* a started turn is driven to its end: the graph run and the relay of its
\* chunks are awaited by the handler of the connection
AgentFairSpec ==
  AgentSpec /\ \A c \in OneConn :
    WF_vars((\E t \in Contents, calls \in ToolCallLists(Requested(messages[c])) :
               Assistant(c, AIMessage(t, calls)) /\ UNCHANGED nonAgentVars)
            \/ (\E results \in [1..PendingRequests(c) -> ToolResults] :
                  Tools(c, results) /\ UNCHANGED nonAgentVars)
            \/ (AssistantFails(c) /\ UNCHANGED nonAgentVars)
            \/ (ToolsFails(c) /\ UNCHANGED nonAgentVars)
            \/ (Complete(c) /\ UNCHANGED nonAgentVars))

TypeOK ==
  /\ now \in 0..MaxNow
  /\ issued \in 1..MaxTokens
  /\ \A p \in Procs : nreq[p] = Len(sent[p]) /\ Len(statuses[p]) <= nreq[p]

\* ------------------------------------------------------------------ claims
\* the raw record of the file holds an access token whose expiry is after t
FileHoldsLiveToken(f, t) ==
  /\ f.kind = "entry"
  /\ f.entry.access_token # 0
  /\ f.entry.expires_at # <<>>
  /\ FromIsoFormat(f.entry.expires_at[1]) > t

\* the returns of get_auth_token
AuthReturns == {"auth_cache", "unavailable", "failed", "password"}

\* C1: a call issues at most two requests to the target URL; the second is
\* issued only after a first response of status 401; a second 401 ends the
\* call and is its result (no third request)
C1_AtMostOneRetry ==
  \A p \in Procs :
    /\ nreq[p] <= 2
    /\ nreq[p] = 2 => (Len(statuses[p]) >= 1 /\ statuses[p][1] = 401)
    /\ (Len(statuses[p]) = 2 /\ statuses[p][2] = 401)
         => (pc[p] = "done" /\ result[p] = Response(401, 2))

C1_Witness ==
  \E p \in Procs : statuses[p] = <<401, 401>> /\ nreq[p] = 2 /\ pc[p] = "done"

\* C2 (as claimed): whenever a retried request has been issued, the token it
\* carries is not the token the first request carried, whatever the outcome
\* of the cache clear
C2_RetryNeverCarriesRejectedToken ==
  \A p \in Procs : Len(sent[p]) = 2 => sent[p][2] # sent[p][1]

\* C3: get_valid_token never returns, by its cache-hit path, a token of a
\* record whose expires_at is not after the current time; with such a record
\* its step goes to the refresh path or to full authentication
C3_ExpiredNeverServed ==
  [][\A p \in Procs :
       /\ (res[p].how = "running" /\ res'[p].how = "cache")
            => (FileHoldsLiveToken(file, now)
                /\ auth_token'[p] = file.entry.access_token)
       /\ (pc[p] = "gvt" /\ pc'[p] # "gvt" /\ ~FileHoldsLiveToken(file, now))
            => pc'[p] \in {"raf", "gat"}]_vars

C3_Witness ==
  \E p \in Procs :
    /\ pc[p] \in {"raf", "gat"}
    /\ res[p].reload = "none"
    /\ file.kind = "entry"
    /\ file.entry.access_token # 0
    /\ file.entry.expires_at # <<>>
    /\ FromIsoFormat(file.entry.expires_at[1]) <= now

\* C4: when the file holds a non-empty access token whose expires_at is in the
\* future, the step of get_valid_token returns that token, posts no grant,
\* calls no save and leaves the file as it is
C4_CacheHitIsSilent ==
  [][\A p \in Procs :
       (pc[p] = "gvt" /\ pc'[p] # "gvt" /\ FileHoldsLiveToken(file, now))
         => /\ auth_token'[p] = file.entry.access_token
            /\ pc'[p] \in {"req1", "req2"}
            /\ res'[p].how = "cache"
            /\ res'[p].refresh = 0 /\ res'[p].password = 0 /\ res'[p].saves = 0
            /\ file' = file /\ issued' = issued]_vars

C4_Witness ==
  \E p \in Procs :
    /\ res[p].how = "cache" /\ pc[p] = "req1"
    /\ FileHoldsLiveToken(file, now)
    /\ auth_token[p] = file.entry.access_token

C6_RefreshFailureFallsThrough ==
  \A p \in Procs :
    /\ res[p].refresh_failed
         => (pc[p] \in {"gat", "gat_wait"} \/ res[p].how \in AuthReturns)
    /\ res[p].how = "refresh" => auth_token[p] # 0

C6_Witness ==
  \E p \in Procs :
    res[p].refresh_failed /\ res[p].how = "password" /\ auth_token[p] # 0

\* C7 (as claimed): with a credential missing, every return of get_auth_token
\* is the return of None without any password grant posted
C7_MissingCredentialsReturnNone ==
  \A p \in Procs :
    (~(creds.username /\ creds.password /\ creds.client_id)
       /\ res[p].how \in AuthReturns)
      => (res[p].how = "unavailable" /\ auth_token[p] = 0 /\ res[p].password = 0)

\* C7 (amended): with a credential missing, get_auth_token posts no password
\* grant and returns None, unless the cache holds a valid access token, which
\* it returns
C7_MissingCredentialsNoRequest ==
  \A p \in Procs :
    ~(creds.username /\ creds.password /\ creds.client_id)
      => /\ pc[p] # "gat_wait"
         /\ res[p].password = 0
         /\ res[p].how \in AuthReturns
              => \/ res[p].how = "unavailable" /\ auth_token[p] = 0
                 \/ res[p].how = "auth_cache" /\ auth_token[p] # 0

C7_Witness ==
  \E p \in Procs :
    /\ ~(creds.username /\ creds.password /\ creds.client_id)
    /\ res[p].how = "unavailable" /\ pc[p] = "done" /\ nreq[p] = 0

\* the last record sent on connection c is final_complete
FinalSent(c) ==
  events[c] # <<>> /\ events[c][Len(events[c])].type = "final_complete"

\* C8: every assistant message of the history with N >= 1 tool-call requests
\* is either the last message with the tools node due next, or is followed by
\* exactly N tool messages answering its requests in request order, and only
\* then by the next assistant message
C8_OneToolMessagePerRequest ==
  \A c \in Conns : \A i \in 1..Len(messages[c]) :
    LET ms == messages[c]
        n == Len(ms[i].tool_calls)
    IN (ms[i].role = "ai" /\ n >= 1) =>
         IF i = Len(ms)
           THEN gnext[c] = "tools" \/ failed[c]
           ELSE /\ Len(ms) >= i + n
                /\ \A k \in 1..n :
                     /\ ms[i + k].role = "tool"
                     /\ ms[i + k].tool_call_id = ms[i].tool_calls[k].id
                /\ Len(ms) > i + n => ms[i + n + 1].role = "ai"
                /\ Len(ms) = i + n => gnext[c] \in {"assistant", "none"}

C8_Witness ==
  \E c \in Conns : \E i \in 1..Len(messages[c]) :
    /\ messages[c][i].role = "ai"
    /\ Len(messages[c][i].tool_calls) = 2
    /\ Len(messages[c]) = i + 3
    /\ messages[c][i + 1].role = "tool" /\ messages[c][i + 2].role = "tool"
    /\ messages[c][i + 3].role = "ai"

\* C9: an assistant message without tool calls and with non-empty content is
\* the last message of the history and the graph is at END: no tool message
\* and no assistant message follows it
C9_PlainAnswerEndsTheLoop ==
  \A c \in Conns : \A i \in 1..Len(messages[c]) :
    LET m == messages[c][i]
    IN (m.role = "ai" /\ m.tool_calls = <<>> /\ m.content # NoText)
         => (i = Len(messages[c]) /\ gnext[c] \in {"end", "none"})

C9_Witness ==
  \E c \in Conns :
    /\ Len(messages[c]) >= 4
    /\ LET m == messages[c][Len(messages[c])]
       IN m.role = "ai" /\ m.tool_calls = <<>> /\ m.content # NoText
    /\ gnext[c] = "none" /\ wpc[c] = "receive" /\ FinalSent(c)

\* C10: a started turn whose model invocations do not raise reaches END and
\* final_complete is sent; at END the model has been invoked once more than
\* the tools node has run
C10_TurnCompletes ==
  /\ \A c \in Conns : (wpc[c] = "stream") ~> (failed[c] \/ FinalSent(c))
  /\ [](\A c \in Conns :
          (gnext[c] = "end" \/ FinalSent(c)) => invocations[c] = rounds[c] + 1)

C10_Witness ==
  \E c \in Conns :
    FinalSent(c) /\ ~failed[c] /\ rounds[c] = 2 /\ invocations[c] = 3

\* the steps a history calls for, by type and tool name: per assistant message
\* with requests one reasoning step and one tool_call step per request, per
\* tool message one tool_response step, per plain answer one final_response
RECURSIVE ExpectedSteps(_)
ExpectedSteps(ms) ==
  IF ms = <<>> THEN <<>>
  ELSE LET m == ms[Len(ms)]
           one(t) == <<[type |-> t, tool_name |-> ""]>>
       IN ExpectedSteps(SubSeq(ms, 1, Len(ms) - 1)) \o
          (CASE m.role = "ai" /\ m.tool_calls # <<>> ->
                  one("reasoning") \o
                  [i \in 1..Len(m.tool_calls) |->
                     [type |-> "tool_call", tool_name |-> m.tool_calls[i].name]]
             [] m.role = "ai" /\ m.tool_calls = <<>> /\ m.content # NoText ->
                  one("final_response")
             [] m.role = "tool" -> one("tool_response")
             [] OTHER -> <<>>)

\* the last message of the history of c is a plain answer with content
EndsWithAnswer(c) ==
  /\ messages[c] # <<>>
  /\ LET m == messages[c][Len(messages[c])]
     IN m.role = "ai" /\ m.tool_calls = <<>> /\ m.content # NoText

\* C11: when a turn with k >= 1 tool rounds that ended in an answer with
\* content has sent final_complete, the events of the turn are thinking, then
\* per round the reasoning step, the tool_call steps in request order and the
\* tool_response steps, then the final_response step, then final_complete,
\* whose tool_calls list holds every requested call
C11_StreamOrder ==
  \A c \in Conns :
    (FinalSent(c) /\ rounds[c] >= 1 /\ EndsWithAnswer(c)) =>
      LET ev == events[c]
          n == Len(ev)
          exp == ExpectedSteps(messages[c])
      IN /\ ev[1] = ThinkingEvent
         /\ n = Len(exp) + 2
         /\ \A i \in 1..Len(exp) :
              /\ ev[i + 1].type = "reasoning_step"
              /\ ev[i + 1].step.type = exp[i].type
              /\ ev[i + 1].step.tool_name = exp[i].tool_name
         /\ exp[Len(exp)].type = "final_response"
         /\ ev[n].type = "final_complete"
         /\ ev[n].tool_calls = RequestedCalls(messages[c])

C11_Witness ==
  \E c \in Conns :
    /\ FinalSent(c) /\ rounds[c] = 2 /\ EndsWithAnswer(c)
    /\ Len(events[c]) = 9
    /\ Len(events[c][9].tool_calls) = 2

\* C12: when the first model message of a turn has content and no tool calls
\* and final_complete has been sent, thinking is the first event,
\* final_complete the last and carries that content, no tool_call or
\* tool_response step was sent and the tool_calls list is empty
C12_PlainAnswerStream ==
  \A c \in Conns :
    (FinalSent(c) /\ Len(messages[c]) = 2 /\ EndsWithAnswer(c)) =>
      LET ev == events[c]
          n == Len(ev)
      IN /\ ev[1] = ThinkingEvent
         /\ ev[n].type = "final_complete"
         /\ ev[n].response = messages[c][2].content
         /\ ev[n].tool_calls = <<>>
         /\ \A i \in 1..n : ev[i].step.type \notin {"tool_call", "tool_response"}
         /\ \A i \in 1..(n - 1) : ev[i].type # "final_complete"

C12_Witness ==
  \E c \in Conns :
    /\ FinalSent(c) /\ Len(messages[c]) = 2 /\ EndsWithAnswer(c)
    /\ events[c][Len(events[c])].response = Text("answer", DisplayCap + 1)

\* the positions of the terminal events among the events of c
Terminals(c) ==
  {i \in 1..Len(events[c]) : events[c][i].type \in {"final_complete", "error"}}

\* C13: among the events of a turn that sent thinking there is at most one
\* terminal event and it is the last event; a running turn has sent none, an
\* ended turn exactly one: error when the run raised, else final_complete
C13_OneTerminalEvent ==
  \A c \in Conns :
    (events[c] # <<>> /\ events[c][1] = ThinkingEvent) =>
      /\ Cardinality(Terminals(c)) <= 1
      /\ \A i \in Terminals(c) :
           /\ i = Len(events[c])
           /\ (events[c][i].type = "error") <=> failed[c]
      /\ (wpc[c] = "stream") <=> (Terminals(c) = {})

C13_Witness ==
  \E c \in Conns :
    /\ events[c] # <<>> /\ events[c][1] = ThinkingEvent
    /\ Len(events[c]) >= 4
    /\ events[c][Len(events[c])].type = "error"
    /\ failed[c] /\ wpc[c] = "receive"

\* C14: the reasoning_steps of final_complete are the steps of the
\* reasoning_step events sent since thinking, in the order sent, and its
\* tool_calls are the requests of the history of the turn, in request order
C14_FinalCarriesWhatWasSent ==
  \A c \in Conns :
    FinalSent(c) =>
      LET ev == events[c]
          n == Len(ev)
      IN /\ n >= 2
         /\ \A i \in 2..(n - 1) : ev[i].type = "reasoning_step"
         /\ ev[n].reasoning_steps = [i \in 1..(n - 2) |-> ev[i + 1].step]
         /\ ev[n].tool_calls = RequestedCalls(messages[c])

C14_Witness ==
  \E c \in Conns :
    /\ FinalSent(c)
    /\ Len(events[c][Len(events[c])].reasoning_steps) >= 6
    /\ Len(events[c][Len(events[c])].tool_calls) = 2

\* s starts with the words of pre
StartsWith(s, pre) == Len(s) >= Len(pre) /\ SubSeq(s, 1, Len(pre)) = pre

\* C15: no tool call ends by raising: whatever make_authenticated_request
\* returned or raised and whatever the body of the response, the call returns
\* a text, and after a failure that text names the failure
C15_ToolsNeverRaise ==
  \A p \in Procs :
    /\ tool_text[p].kind \in {"none", "text"}
    /\ (tool_text[p].kind = "text" /\ result[p].kind = "raise")
         => tool_text[p].cause = result[p].err
    /\ (tool_text[p].kind = "text" /\ result[p].kind = "response"
        /\ result[p].status # 200)
         => tool_text[p].cause = "HTTPStatusError"

C15_Witness ==
  \E p \in Procs :
    /\ tool[p] = "get_news_story" /\ tool_text[p].kind = "text"
    /\ result[p].kind = "raise"
    /\ tool_text[p].cause = "Unable to re-authenticate"

C17_LoadSeesOneWholeSave ==
  [][/\ file' # file =>
          \/ file' \in {AbsentFile, CorruptFile}
          \/ \E p \in Procs : cpc[p] = "dump" /\ file' = Serialized(tc[p])
     /\ \A p \in Procs :
          got'[p] # got[p] =>
            /\ got'[p].keys = AllKeys
            /\ \/ got'[p].entry = EmptyEntry
               \/ file.kind = "entry" /\ Serialized(got'[p].entry) = file]_vars

C17_Witness ==
  \E p \in Procs, q \in Procs :
    /\ p # q
    /\ cpc[p] = "dump" /\ cpc[q] = "dump"
    /\ got[q].entry \in RaceEntries(p)
    /\ got[p].entry \in RaceEntries(q)

\* C19: a load that follows the save of an entry, the file being as saved,
\* returns that entry with its three fields, and the document of the loaded
\* entry is the stored document
C19_SaveLoadRoundTrip ==
  [][\A p \in Procs :
       (cpc[p] = "saved" /\ cpc'[p] = "reloaded" /\ file = Serialized(tc[p]))
         => /\ got'[p].entry = tc[p]
            /\ got'[p].keys = AllKeys
            /\ Serialized(got'[p].entry) = file]_vars

C19_Witness ==
  \E p \in Procs :
    /\ cpc[p] = "reloaded"
    /\ got[p].entry = Entry(1, 0, <<86700>>)
    /\ file = Serialized(got[p].entry)

\* C20 (as claimed): whatever the store holds, the dict a load returns has the
\* three keys and the start of get_valid_token on it does not raise
C20_LoadAlwaysYieldsAnEntry ==
  \A p \in Procs :
    got[p].head # "none" =>
      /\ got[p].keys = AllKeys
      /\ got[p].head # "KeyError"

\* the state of the turn of connection c
TurnState(c) ==
  <<messages[c], reasoning_steps[c], tool_calls[c], final_response[c],
    step_counter[c], events[c], gnext[c]>>

\* C18: with turns running concurrently, a step that changes the history, the
\* lists, the answer or the counter of one connection changes those of no
\* other connection and leaves the graph as it is; and the lists of every
\* connection hold what its own history calls for and nothing else
C18_TurnsShareNothing ==
  /\ [][\A c \in Conns, d \in Conns :
          (c # d /\ TurnState(c)' # TurnState(c))
            => (TurnState(d)' = TurnState(d) /\ graph' = graph)]_vars
  /\ [](\A c \in Conns :
          LET exp == ExpectedSteps(messages[c])
          IN /\ tool_calls[c] = RequestedCalls(messages[c])
             /\ exp = [i \in 1..Len(reasoning_steps[c]) |->
                         [type |-> reasoning_steps[c][i].type,
                          tool_name |-> reasoning_steps[c][i].tool_name]])

C18_Witness ==
  /\ wpc[1] = "stream" /\ wpc[2] = "stream"
  /\ rounds[1] = 1 /\ rounds[2] = 0
  /\ Len(tool_calls[1]) = 1 /\ Len(tool_calls[2]) = 1
  /\ tool_calls[1][1].name # tool_calls[2][1].name

\* C21 (as claimed): a grant step that calls save returns the granted token
\* to make_authenticated_request, which goes on to its request, and the file
\* after the step holds the record of the new token (the save succeeded) or
\* is the file as it was before the step (the save failed)
C21_FailedSaveLeavesTheRecord ==
  [][\A p \in Procs :
       res'[p].saves > res[p].saves
         => /\ res'[p].granted # 0
            /\ auth_token'[p] = res'[p].granted
            /\ pc'[p] \in {"req1", "req2"}
            /\ \/ file' = file
               \/ /\ file'.kind = "entry"
                  /\ file'.entry.access_token = res'[p].granted]_vars

\* the declared lifetime of a grant, as the claim reads it: expires_in as an
\* integer, or 3600 when it is absent or is no number
Lifetime(ei) ==
  CASE ei.k \in {"int", "str", "float"} -> ei.v
    [] OTHER -> 3600

\* C22: after a grant step whose save wrote the file, the expires_at of the
\* stored record is the time of the step plus the lifetime of the answer (the
\* integer it declares, 3600 when it declares none or no number) minus 300
C22_SavedExpiry ==
  [][\A p \in Procs :
       (res'[p].saves > res[p].saves /\ file'.kind = "entry"
        /\ file'.entry.access_token = res'[p].granted)
         => /\ res'[p].how \in {"refresh", "password"}
            /\ \E g \in ledger' :
                 /\ g.token = res'[p].granted
                 /\ file'.entry.expires_at # <<>>
                 /\ FromIsoFormat(file'.entry.expires_at[1])
                      = now + Lifetime(g.expires_in) - 300]_vars

C22_Witness ==
  /\ now = Margin
  /\ file.kind = "entry" /\ file.entry.access_token = 2
  /\ file.entry.expires_at = <<IsoFormat(Margin + 300)>>
  /\ \E g \in ledger : g.token = 2 /\ g.expires_in = ExpiresInStr(600)
  /\ \E p \in Procs : res[p].how = "refresh" /\ res[p].granted = 2

\* the answer of grant g declares a lifetime
Declares(g) == g.expires_in.k \in {"int", "str", "float"}

\* C23: when get_valid_token returns by its cache-hit path the token of a
\* grant that declared its lifetime, the time of the return is earlier than
\* the time of issue of the token plus that lifetime, although expires_at was
\* computed from the time the answer was processed
C23_ServedBeforeRealExpiry ==
  [][\A p \in Procs :
       (res[p].how = "running" /\ res'[p].how = "cache")
         => \A g \in ledger :
              (g.token = auth_token'[p] /\ Declares(g))
                => now < g.issued_at + g.expires_in.v]_vars

C23_Witness ==
  \E p \in Procs : \E g \in ledger :
    /\ res[p].how = "cache" /\ pc[p] = "req1"
    /\ g.token = auth_token[p] /\ Declares(g)
    /\ g.issued_at = now - Timeout
    /\ file.kind = "entry" /\ file.entry.access_token = g.token

\* C24 (as claimed): the clear on a 401 leaves the refresh_token of the
\* record where it is, and when it changes the record it clears its
\* access_token and its expires_at
C24_RefreshTokenSurvivesTheClear ==
  [][\A p \in Procs :
       (pc[p] = "clear" /\ pc'[p] = "gvt")
         => /\ LoadTokenCache(file').refresh_token
                 = LoadTokenCache(file).refresh_token
            /\ file' # file
                 => /\ LoadTokenCache(file').access_token = 0
                    /\ LoadTokenCache(file').expires_at = <<>>]_vars

\* C25: a first request that gets no response ends the call by raising the
\* transport error, in a step that leaves the file, the endpoint and the
\* token resolution as they are; a call that raised it has issued that one
\* request and has called get_valid_token once
C25_TransportErrorPropagates ==
  /\ [][\A p \in Procs :
          (nreq[p] = 0 /\ nreq'[p] = 1 /\ statuses'[p] = <<>>)
            => /\ result'[p] = Raised("transport", 1)
               /\ pc'[p] = "done"
               /\ file' = file /\ issued' = issued
               /\ res'[p] = res[p] /\ nres'[p] = nres[p]]_vars
  /\ [](\A p \in Procs :
          (result[p].kind = "raise" /\ result[p].err = "transport"
           /\ result[p].req = 1)
            => (pc[p] = "done" /\ nreq[p] = 1 /\ nres[p] = 1
                /\ statuses[p] = <<>> /\ phase[p] = 1))

C25_Witness ==
  \E p \in Procs :
    /\ result[p] = Raised("transport", 1) /\ pc[p] = "done"
    /\ res[p].how = "cache"
    /\ file.kind = "entry" /\ file.entry.access_token = sent[p][1]

\* C26: every request to the target URL carries a token that get_valid_token
\* returned before it; a call whose first resolution yields no token raises
\* the authentication error with no request issued, and a call whose
\* resolution after a 401 yields none raises with that one request issued
C26_TokenBeforeRequest ==
  \A p \in Procs :
    /\ \A i \in 1..Len(sent[p]) : sent[p][i] # 0
    /\ pc[p] \in {"req1", "req2"} => auth_token[p] # 0
    /\ res[p].how \in {"unavailable", "failed"}
         => /\ pc[p] = "done" /\ auth_token[p] = 0
            /\ result[p] = IF phase[p] = 1
                             THEN Raised("Unable to authenticate", 0)
                             ELSE Raised("Unable to re-authenticate", 1)
    /\ (result[p].kind = "raise" /\ result[p].err = "Unable to authenticate")
         => (nreq[p] = 0 /\ nres[p] = 1)
    /\ (result[p].kind = "raise" /\ result[p].err = "Unable to re-authenticate")
         => (nreq[p] = 1 /\ statuses[p] = <<401>> /\ nres[p] = 2)

C26_Witness ==
  \E p \in Procs :
    /\ result[p] = Raised("Unable to re-authenticate", 1)
    /\ sent[p] # <<>> /\ statuses[p] = <<401>>
    /\ res[p].how = "failed" /\ res[p].password = 1

\* the positions of the final_response steps among the events of c
FinalResponses(c) ==
  {i \in 1..Len(events[c]) : events[c][i].step.type = "final_response"}

\* C27 (as claimed): when final_complete has been sent, exactly one
\* final_response step was sent in the turn, right before final_complete and
\* so after every tool_call and tool_response step, whatever the content of
\* the final assistant message
C27_OneFinalResponseStep ==
  \A c \in Conns :
    FinalSent(c) => FinalResponses(c) = {Len(events[c]) - 1}

\* C28: the response of final_complete is the content of the final assistant
\* message, whole and of its full length, when that content is not empty, and
\* the fallback apology when it is empty; it is never the empty string
C28_FinalResponseText ==
  \A c \in Conns :
    FinalSent(c) =>
      LET r == events[c][Len(events[c])].response
          m == messages[c][Len(messages[c])]
      IN /\ m.role = "ai" /\ m.tool_calls = <<>>
         /\ r # NoText /\ r.len > 0
         /\ m.content # NoText => (r = m.content /\ ~r.cut)
         /\ m.content = NoText => r = Apology

C28_Witness ==
  \E c \in Conns :
    /\ FinalSent(c) /\ rounds[c] >= 1
    /\ events[c][Len(events[c])].response.len > DisplayCap
    /\ ~events[c][Len(events[c])].response.cut

\* the tool messages of the history of c, and the tool_response steps sent
IsToolMessage(m) == m.role = "tool"
IsToolResponse(e) == e.step.type = "tool_response"
ToolTexts(c) == SelectSeq(messages[c], IsToolMessage)
ToolResponses(c) == SelectSeq(events[c], IsToolResponse)

\* C29: in a turn, the i-th tool_response step answers the i-th tool message
\* of the history; its response is the text of that message when the text has
\* at most 200 characters, else the first 200 characters and "..."; the
\* message in the history holds the text as the tool returned it
C29_ToolResponseCapped ==
  \A c \in Conns :
    (events[c] # <<>> /\ events[c][1] = ThinkingEvent) =>
      /\ Len(ToolResponses(c)) = Len(ToolTexts(c))
      /\ \A i \in 1..Len(ToolTexts(c)) :
           LET t == ToolTexts(c)[i].content
               r == ToolResponses(c)[i].step.response
           IN /\ t \in ToolResults /\ ~t.cut
              /\ IF t.len <= 200
                   THEN r = t
                   ELSE r.body = t.body /\ r.cut /\ r.len = 200 + 3

C29_Witness ==
  \E c \in Conns :
    /\ Len(ToolTexts(c)) = 2 /\ Len(ToolResponses(c)) = 2
    /\ ToolTexts(c)[1].content.len = 200
    /\ ToolResponses(c)[1].step.response.len = 200
    /\ ToolTexts(c)[2].content.len = 201
    /\ ToolResponses(c)[2].step.response.len = 203
    /\ wpc[c] = "stream" /\ gnext[c] = "assistant"

\* C30: a turn whose model invocation raised has sent, after thinking, one
\* error event as its last event and no final_complete, and the handler is
\* back at the receive; the turn that follows it starts with a history of one message,
\* its own user message, with empty lists, no answer and the counter at 0,
\* and its history never holds another user message
C30_FailedTurnLeavesNothing ==
  \A c \in Conns :
    /\ (ModelFailed(c) /\ events[c][1] = ThinkingEvent) =>
         /\ wpc[c] = "receive"
         /\ Terminals(c) = {Len(events[c])}
         /\ events[c][Len(events[c])].type = "error"
    /\ (prev_failed[c] /\ wpc[c] = "stream") =>
         /\ messages[c][1].role = "human"
         /\ \A i \in 2..Len(messages[c]) : messages[c][i].role # "human"
         /\ invocations[c] = 0 =>
              /\ Len(messages[c]) = 1
              /\ reasoning_steps[c] = <<>> /\ tool_calls[c] = <<>>
              /\ final_response[c] = NoText /\ step_counter[c] = 0
              /\ events[c] = <<ThinkingEvent>>

C30_Witness ==
  \E c \in Conns :
    /\ prev_failed[c] /\ wpc[c] = "stream" /\ invocations[c] = 0
    /\ Len(messages[c]) = 1 /\ events[c] = <<ThinkingEvent>>

\* C31: before initialize_app has run, chat_endpoint answers 503 without
\* running the graph, and a connection that is opened gets one error event
\* and is closed: it has no history, no turn and no other event; and no
\* connection is open while there is no graph.
C31_NoGraphNoTurn ==
  /\ [](graph = "none" =>
          /\ rest \in {NoRest, RestAnswer(503, <<>>, <<>>, FALSE)}
          /\ \A c \in Conns :
               /\ wpc[c] = "closed" /\ messages[c] = <<>> /\ invocations[c] = 0
               /\ events[c] \in {<<>>, <<ErrorEvent>>})
  /\ [][graph = "none" /\ graph' = "none" =>
          /\ rest' = RestAnswer(503, <<>>, <<>>, FALSE) \/ rest' = rest
          /\ \A c \in Conns :
               events'[c] # events[c] => events'[c] = <<ErrorEvent>>]_vars

C31_Witness ==
  /\ graph = "none"
  /\ rest = RestAnswer(503, <<>>, <<>>, FALSE)
  /\ events[1] = <<ErrorEvent>> /\ wpc[1] = "closed"

\* the body b of a 2xx answer is well formed but for nested fields the tool
\* extracts, which are missing: the stories are dicts that may lack storyId,
\* newsItem, the title or its "$"; the story may lack newsItem, the headline,
\* the content, versionCreated or urgency or their "$"
FieldsMissing(name, b) ==
  IF name = "get_headlines"
    THEN /\ b.shape = "data"
         /\ \A i \in 1..Len(b.stories) : b.stories[i] # "string"
         /\ \E i \in 1..Len(b.stories) : b.stories[i] # "ok"
    ELSE /\ b.shape \in {"noitem", "item"}
         /\ \/ b.shape = "noitem"
            \/ b.item.headline = "absent" \/ b.item.content = "absent"
            \/ b.item.versionCreated # "ok" \/ b.item.urgency # "ok"

\* C32: a tool call that parsed a body whose only defect is missing nested
\* fields returns the JSON text of its result, not an error text (violated:
\* versionCreated or urgency without "$" makes get_news_story return
\* "Error fetching news by ID: ...").
C32_MissingFieldsBecomeEmpty ==
  \A p \in Procs :
    (tool_text[p].kind # "none" /\ tool_body[p] # <<>>
       /\ FieldsMissing(tool[p], tool_body[p][1]))
      => tool_text[p].kind = "text" /\ tool_text[p].cause = ""
         /\ tool_text[p].value # <<>>

\* the tool messages of the history ms that answer the request id
Answers(ms, id) ==
  {i \in 1..Len(ms) : ms[i].role = "tool" /\ ms[i].tool_call_id = id}

\* C33: in every history each tool message carries the id of a request of
\* an assistant message that stands earlier in the same history, and no
\* request id is answered by more than one tool message.
C33_ToolMessagesAnswerRequests ==
  \A c \in Conns :
    /\ \A i \in 1..Len(messages[c]) :
         messages[c][i].role = "tool" =>
           \E j \in 1..(i - 1) :
             /\ messages[c][j].role = "ai"
             /\ \E k \in 1..Len(messages[c][j].tool_calls) :
                  messages[c][j].tool_calls[k].id = messages[c][i].tool_call_id
    /\ \A id \in 1..(MaxRequests + 1) :
         Cardinality(Answers(messages[c], id)) <= 1

\* two rounds of tools have answered their requests
C33_Witness ==
  \E c \in Conns :
    /\ rounds[c] = 2
    /\ Cardinality(Answers(messages[c], 1)) = 1
    /\ Cardinality(Answers(messages[c], 2)) = 1

\* C34: during a turn every step leaves the history it found as a prefix of
\* the history it leaves: messages are appended, none is removed, reordered
\* or edited.
C34_HistoryOnlyGrows ==
  [][\A c \in Conns :
       wpc[c] = "stream" => StartsWith(messages'[c], messages[c])]_vars

\* a running turn whose history has grown by a model answer and a tool round
C34_Witness ==
  \E c \in Conns :
    /\ wpc[c] = "stream" /\ gnext[c] = "assistant"
    /\ Len(messages[c]) >= 3
    /\ messages[c][1].role = "human" /\ messages[c][2].role = "ai"
    /\ messages[c][3].role = "tool"

\* C35 as stated: a turn starts with the history [system preamble, user
\* message] (violated: the history of a starting turn is the user message
\* alone).
C35_HistoryStartsWithPreamble ==
  \A c \in Conns :
    (wpc[c] = "stream" /\ invocations[c] = 0) =>
      /\ Len(messages[c]) = 2
      /\ messages[c][1] = sys_msg
      /\ messages[c][2].role = "human"

\* C35, amended: a turn starts awaiting the model with a history that holds
\* the user message alone; the system preamble is never a message of the
\* history, it stands first in every list the model is invoked with, followed
\* by the history of that moment, whose first message is the user message.
C35_PreambleLeadsModelInput ==
  \A c \in Conns :
    /\ (wpc[c] = "stream" /\ invocations[c] = 0) =>
         /\ Len(messages[c]) = 1 /\ messages[c][1].role = "human"
         /\ gnext[c] = "assistant" /\ model_input[c] = <<>>
    /\ \A i \in 1..Len(messages[c]) : messages[c][i].role # "system"
    /\ model_input[c] # <<>> =>
         /\ model_input[c][1] = sys_msg
         /\ Len(model_input[c]) >= 2 /\ model_input[c][2] = messages[c][1]
         /\ messages[c][1].role = "human"
         /\ StartsWith(messages[c], Tail(model_input[c]))

\* the model has been invoked a second time, after a round of tools
C35_Witness ==
  \E c \in Conns :
    /\ wpc[c] = "stream" /\ invocations[c] = 2
    /\ Len(model_input[c]) >= 4
    /\ model_input[c][1].role = "system"

\* C36: once a process has gone through clear_token_cache after a 401, no
\* get_valid_token call of any process that loads the cache afterwards
\* returns the token that was refused and cleared by a cache-hit path; a
\* token is saved once, so a save can only put another token in its place
\* (violated: the clear may leave the record, and the next load serves it).
C36_ClearedTokenNotServed ==
  [][\A p \in Procs, q \in Procs :
       (phase[p] = 2 /\ res[q].how = "running"
          /\ res'[q].how \in {"cache", "auth_cache"})
         => auth_token'[q] # sent[p][1]]_vars

\* how far a get_valid_token call has come: its cache test, the refresh
\* grant, the password grant, and its return
AuthRank(s) ==
  CASE s = "gvt" -> 1 [] s = "raf" -> 2 [] s = "raf_wait" -> 3
    [] s = "gat" -> 4 [] s = "gat_wait" -> 5 [] OTHER -> 6

\* C37: a get_valid_token call posts at most one refresh grant and at most
\* one password grant, every step takes it nearer to its return, and it
\* returns with a result; a make_authenticated_request call makes at most two
\* get_valid_token calls.
C37_NoAuthenticationLoop ==
  /\ [](\A p \in Procs :
          /\ res[p].refresh <= 1 /\ res[p].password <= 1
          /\ Len(res[p].order) <= 2
          /\ nres[p] <= 2)
  /\ [][\A p \in Procs :
          (AuthRank(pc[p]) <= 5 /\ pc'[p] # pc[p]) =>
            /\ AuthRank(pc'[p]) > AuthRank(pc[p])
            /\ AuthRank(pc'[p]) = 6 =>
                 (res'[p].how # "running" /\ pc'[p] \in {"req1", "req2", "done"})]_vars

\* the second get_valid_token call of a request has posted both grants and
\* has returned
C37_Witness ==
  \E p \in Procs :
    /\ nres[p] = 2 /\ res[p].order = <<"refresh", "password">>
    /\ res[p].how \in {"password", "failed"} /\ pc[p] \in {"req2", "done"}

\* one of the three credentials is not set
CredentialMissing == ~(creds.username /\ creds.password /\ creds.client_id)

\* C38 as stated: with a credential missing no password grant is posted, a
\* refresh grant is posted only after get_valid_token found a refresh token
\* and no valid access token, and after a refresh that did not succeed the
\* call returns None (violated: it may return the token another process has
\* saved meanwhile).
C38_MissingCredentialsOnlyRefresh ==
  \A p \in Procs :
    CredentialMissing =>
      /\ res[p].password = 0 /\ pc[p] # "gat_wait"
      /\ res[p].refresh >= 1 => (res[p].seen_refresh /\ res[p].reload = "has")
      /\ (res[p].refresh >= 1 /\ res[p].how \in AuthReturns)
           => (res[p].how = "unavailable" /\ auth_token[p] = 0)

\* C38, amended: the same, but after a refresh that did not succeed the call
\* returns None or the access token that the cache holds, still valid, when
\* get_auth_token loads it.
C38_MissingCredentialsRefreshOrCache ==
  \A p \in Procs :
    CredentialMissing =>
      /\ res[p].password = 0 /\ pc[p] # "gat_wait"
      /\ res[p].refresh >= 1 => (res[p].seen_refresh /\ res[p].reload = "has")
      /\ (res[p].refresh >= 1 /\ res[p].how \in AuthReturns)
           => \/ res[p].how = "unavailable" /\ auth_token[p] = 0
              \/ res[p].how = "auth_cache" /\ auth_token[p] # 0
      /\ res[p].how \in {"refresh", "auth_cache", "cache"} => auth_token[p] # 0

\* with a credential missing a refresh grant was posted, did not succeed, and
\* the call returned None
C38_Witness ==
  \E p \in Procs :
    /\ CredentialMissing
    /\ res[p].refresh = 1 /\ res[p].order = <<"refresh">>
    /\ res[p].how = "unavailable" /\ auth_token[p] = 0

\* the store holds the token of grant g, whose lifetime is at most the margin
ShortLived(g) ==
  /\ Lifetime(g.expires_in) <= Margin
  /\ file.kind = "entry" /\ file.entry.access_token = g.token
  /\ file.entry.expires_at # <<>>

\* C39: the record of a token whose lifetime is at most 300 seconds has an
\* expires_at that is not in the future, and while the store holds it no
\* get_valid_token call returns by a cache hit: the call goes on to the
\* refresh grant or to get_auth_token, which does not take its cache path.
C39_ShortLifetimeNeverServed ==
  /\ [](\A g \in ledger :
          ShortLived(g) => FromIsoFormat(file.entry.expires_at[1]) <= now)
  /\ [][\A p \in Procs : \A g \in ledger :
          ShortLived(g) =>
            /\ (pc[p] = "gvt" /\ pc'[p] # "gvt") =>
                 (pc'[p] \in {"raf", "gat"} /\ res'[p].how = "running")
            /\ (pc[p] = "gat" /\ pc'[p] # "gat") =>
                 res'[p].how # "auth_cache"]_vars

\* a call that follows the save of a short-lived token is on its refresh path
C39_Witness ==
  \E p \in Procs : \E g \in ledger :
    /\ ShortLived(g) /\ g.expires_in = ExpiresInInt(Margin)
    /\ pc[p] = "raf" /\ phase[p] = 1 /\ res[p].saves = 0
    /\ FromIsoFormat(file.entry.expires_at[1]) = now

\* what websocket_endpoint keeps of a turn on connection c
TurnLocals(c) ==
  <<messages[c], gnext[c], reasoning_steps[c], tool_calls[c],
    final_response[c], step_counter[c], invocations[c], rounds[c], failed[c]>>

\* C40: no turn has an empty user message; and a step that answers a
\* received message without starting a turn sends the one error record that
\* has no type, no thinking, reasoning_step or final_complete event, runs no
\* node of the graph, and leaves the connection waiting for the next message.
C40_EmptyMessageStartsNoTurn ==
  /\ [](\A c \in Conns : \A i \in 1..Len(messages[c]) :
          messages[c][i].role = "human" => messages[c][i].content # NoText)
  /\ [][\A c \in Conns :
          (wpc[c] = "receive" /\ wpc'[c] = "receive" /\ events'[c] # events[c]) =>
            /\ events'[c] = <<UntypedErrorEvent>>
            /\ TurnLocals(c)' = TurnLocals(c)
            /\ graph' = graph]_vars

\* after a finished turn an empty message was answered by the error record,
\* and the connection waits for the next message
C40_Witness ==
  \E c \in Conns :
    /\ wpc[c] = "receive" /\ events[c] = <<UntypedErrorEvent>>
    /\ invocations[c] >= 1 /\ messages[c] # <<>>
====
